---- MODULE Spec2Model ----
(***************************************************************************)
(* Zypto-history: the ingestion scripts that write the Firestore           *)
(* collections zypto_prices_daily and zypto_prices_hourly.                 *)
(*                                                                         *)
(* The store is a partial map from document id to document; a document is  *)
(* a function from field name to value.  Every script is modelled by the   *)
(* payload it builds and the store call (get, set with merge, batch        *)
(* commit) it issues, split at its await points where interleaving with    *)
(* another script matters.                                                 *)
(***************************************************************************)
EXTENDS Integers, Sequences, FiniteSets, TLC

VARIABLES
  daily,    \* collection zypto_prices_daily: day id -> document
  hourly,   \* collection zypto_prices_hourly: hour id -> document
  now,      \* the wall clock, in ms (Date.now(), serverTimestamp())
  last,     \* history: the last write applied (provider, day, validity)
  before,   \* history: daily as it was before the last write
  wrote,    \* history: the <<provider, day>> pairs that wrote a valid candle
  ingested, \* history: the quotes the hourly ingestor wrote, in order
  proc      \* the running scripts: per process its position and locals

vars == <<daily, hourly, now, last, before, wrote, ingested, proc>>

----------------------------------------------------------------------------
(* Bounds and sample inputs *)

\* the one day key the sequential writes go to (an epoch day index)
Day0 == 1
\* number of writes in one sequence of provider writes
MaxWrites == 3
\* number of hourly ingestions in one run of the hourly specification
MaxIngest == 3
\* number of operations of each backfill pipeline that runs beside the others
MaxOps == 2
\* the largest number of records one response buffers for the batch commit loop
MaxBuffered == 1250
\* runs of the hourly ingestor one after the other in SpecQuote
MaxQuoteRuns == 2
\* days of history the paging provider holds in a run of SpecRun
HistDays == 4
\* days of history the provider holds in a run of SpecPage: three pages, the
\* last one short, and more than the safety cap of rows
ShortHist == 2400
CapHist == 20400

DaySec == 86400
DayMs == 86400000
HourMs == 3600000

----------------------------------------------------------------------------
(* JavaScript values.  A numeric field holds a number, NaN, null or is    *)
(* undefined; numbers are exact rationals n/d so that a mean is exact.    *)

Num(k) == [t |-> "number", n |-> k, d |-> 1]
NaN == [t |-> "NaN", n |-> 0, d |-> 1]
Null == [t |-> "null", n |-> 0, d |-> 1]
Undefined == [t |-> "undefined", n |-> 0, d |-> 1]

\* a JSON string holding the decimal numeral of k, and one holding no numeral
StrNum(k) == [t |-> "string", n |-> k, d |-> 1]
StrText == [t |-> "text", n |-> 0, d |-> 1]

IsNumber(x) == x.t = "number"
\* typeof x === "number": NaN is a number too
TypeofNumber(x) == x.t \in {"number", "NaN"}
\* isFinite(x) / Number.isFinite(x) on a value that is a number, NaN, null or undefined
\* (no infinity arises from the JSON numerals modelled)
NumberIsFinite(x) == x.t = "number"
\* the global isFinite coerces: isFinite(null) is true
GlobalIsFinite(x) == x.t \in {"number", "null"}
\* x != null : neither null nor undefined
NotNullish(x) == x.t \notin {"null", "undefined"}
\* truthiness of a numeric value: 0, NaN, null and undefined are falsy
Truthy(x) == x.t = "number" /\ x.n # 0

\* Number(x) and unary plus
ToNumber(x) ==
  CASE x.t = "number" -> x
    [] x.t = "string" -> Num(x.n)
    [] x.t = "null" -> Num(0)
    [] OTHER -> NaN

RECURSIVE Gcd(_, _)
Gcd(a, b) == IF b = 0 THEN a ELSE Gcd(b, a % b)

Abs(k) == IF k < 0 THEN 0 - k ELSE k

\* the rational n/d in lowest terms, d > 0
Rat(n, d) ==
  LET g == Gcd(Abs(n), d)
  IN  [t |-> "number", n |-> n \div g, d |-> d \div g]

\* a < b on numbers
Less(a, b) == a.n * b.d < b.n * a.d

Add(a, b) == Rat(a.n * b.d + b.n * a.d, a.d * b.d)

\* x || y on numeric values
OrElse(x, y) == IF Truthy(x) THEN x ELSE y
\* x ?? y
Coalesce(x, y) == IF NotNullish(x) THEN x ELSE y

\* Math.max(a, b) / Math.min(a, b): null coerces to 0, NaN and undefined give NaN
MathMax(a, b) ==
  LET x == ToNumber(a)
      y == ToNumber(b)
  IN  IF a.t = "undefined" \/ b.t = "undefined" \/ x.t = "NaN" \/ y.t = "NaN" THEN NaN
      ELSE IF Less(x, y) THEN y ELSE x

MathMin(a, b) ==
  LET x == ToNumber(a)
      y == ToNumber(b)
  IN  IF a.t = "undefined" \/ b.t = "undefined" \/ x.t = "NaN" \/ y.t = "NaN" THEN NaN
      ELSE IF Less(y, x) THEN y ELSE x

\* a + b on values that are numbers (after || 0)
Plus(a, b) == IF IsNumber(a) /\ IsNumber(b) THEN Add(a, b) ELSE NaN

----------------------------------------------------------------------------
(* Documents and the store *)

EmptyDoc == <<>>

\* d.field, undefined when the document has no such field
Field(doc, f) == IF f \in DOMAIN doc THEN doc[f] ELSE Undefined

Has(doc, f) == f \in DOMAIN doc

\* the fields that hold a nested map
MapFields == {"geckoTerminal", "uniV3"}

\* ref.set(payload, { merge: true }): payload fields replace, nested maps merge
\* field by field, every other field of the document stays
SetMerge(doc, payload) ==
  [f \in (DOMAIN doc) \cup (DOMAIN payload) |->
     IF f \notin DOMAIN payload THEN doc[f]
     ELSE IF f \in MapFields /\ f \in DOMAIN doc
          THEN [g \in (DOMAIN doc[f]) \cup (DOMAIN payload[f]) |->
                  IF g \in DOMAIN payload[f] THEN payload[f][g] ELSE doc[f][g]]
          ELSE payload[f]]

\* ref.set(payload): the document becomes the payload
SetOverwrite(doc, payload) == payload

Exists(store, id) == id \in DOMAIN store

\* snap.exists ? snap.data() : {}
DataOrEmpty(store, id) == IF Exists(store, id) THEN store[id] ELSE EmptyDoc

\* the store after one document write
Put(store, id, doc) == (id :> doc) @@ store

----------------------------------------------------------------------------
(* Configuration shared by the scripts *)

TOKEN_ADDRESS == "0x7a65"
PAIR == "0x1ecb"
NETWORK == "eth"
CHAIN == "ethereum"

\* the day id of a unix time in seconds; the id is the ISO date of that day,
\* which is one-to-one with the epoch day index used here
tsToDay(ts) == ts \div DaySec

\* the day id of a time in ms
ymd(ms) == ms \div DayMs

\* the hour id of a time in ms
ymdh(ms) == ms \div HourMs

----------------------------------------------------------------------------
(* backfillFromUniswapV2.js *)

RECURSIVE SumSeq(_)
SumSeq(xs) == IF Len(xs) = 0 THEN Num(0) ELSE Add(Head(xs), SumSeq(Tail(xs)))

IsFiniteNumber(x) == TypeofNumber(x) /\ NumberIsFinite(x)

\* mean of the finite numbers of arr, undefined when there is none
mean(arr) ==
  LET xs == SelectSeq(arr, IsFiniteNumber)
      s == SumSeq(xs)
  IN  IF Len(xs) = 0 THEN Undefined ELSE Rat(s.n, s.d * Len(xs))

\* SetAdd on an array instead of a Set: the name is pushed again
SetAddDup(srcs, name) == Append(srcs, name)

\* sources.add(name) on the insertion-ordered set
SetAdd(srcs, name) ==
  IF \E i \in 1..Len(srcs) : srcs[i] = name THEN srcs ELSE Append(srcs, name)

\* the payload upsertDaily builds from the snapshot it read
upsertPayloadV2(prev, updates, t) ==
  LET cg == IF TypeofNumber(Field(prev, "cgUSD")) THEN prev["cgUSD"] ELSE Undefined
      uni == IF TypeofNumber(Field(updates, "uniV2USD")) THEN updates["uniV2USD"] ELSE Undefined
      priceUSD == mean(<<cg, uni>>)
      s0 == IF Has(prev, "sources") THEN prev["sources"] ELSE <<>>
      s1 == IF NotNullish(cg) THEN SetAdd(s0, "coingecko") ELSE s0
      s2 == IF NotNullish(uni) THEN SetAdd(s1, "uniswap-v2") ELSE s1
      own == [uniV2USD |-> uni, sources |-> s2, updatedAt |-> t]
      withPrice == IF NotNullish(priceUSD) THEN ("priceUSD" :> priceUSD) @@ own ELSE own
  IN  withPrice @@ prev

\* the document written by upsertDaily: the payload built from the snapshot
\* prev, merged into the document cur that is in the store at the write
upsertDocV2(cur, prev, updates, t) == SetMerge(cur, upsertPayloadV2(prev, updates, t))

\* upsertDaily run without interleaving: read, then write
upsertDailyV2(store, day, updates, t) ==
  LET prev == DataOrEmpty(store, day)
  IN  Put(store, day, upsertDocV2(prev, prev, updates, t))

\* the row test of backfillFromUniswapV2: uniV2USD && isFinite(uniV2USD)
rowAcceptedV2(r) ==
  LET uniV2USD == ToNumber(r.priceUSD)
  IN  Truthy(uniV2USD) /\ GlobalIsFinite(uniV2USD)

----------------------------------------------------------------------------
(* backfillFromUniswapV3.js (src/unnamed/part_001, first file) *)

\* The time sec * 1000 in ms, held as its seconds and the ms within the
\* second: the ms of a history of years are more than a 32-bit integer holds.
TimeMs(sec) == [sec |-> sec, ms |-> 0]

\* yyyyMmDd(ts) of a time in ms
yyyyMmDd(tm) == tsToDay(tm.sec)

docV3(cur, row, t) ==
  SetMerge(cur,
    [ts |-> TimeMs(row.date),
     uniV3 |-> [priceUSD |-> OrElse(ToNumber(row.priceUSD), Null),
                volumeUSD |-> OrElse(ToNumber(row.volumeUSD), Null)],
     updatedAt |-> t])

----------------------------------------------------------------------------
(* backfillFromGeckoTerminal.js, three versions *)

\* docGTB with { merge: true } left out: the document becomes the payload
docGTBNoMerge(cur, row, t) ==
  SetOverwrite(cur,
    [geckoTerminal |-> [o |-> row.o, h |-> row.h, l |-> row.l, c |-> row.c, v |-> row.v,
                        ts |-> row.ts, pair |-> PAIR, token |-> TOKEN_ADDRESS,
                        network |-> NETWORK],
     _updatedAt |-> t])

\* paging version with writeBatch (src/unnamed/part_001, second file):
\* the row's values are stored as they came
docGTB(cur, row, t) ==
  SetMerge(cur,
    [geckoTerminal |-> [o |-> row.o, h |-> row.h, l |-> row.l, c |-> row.c, v |-> row.v,
                        ts |-> row.ts, pair |-> PAIR, token |-> TOKEN_ADDRESS,
                        network |-> NETWORK],
     _updatedAt |-> t])

\* fetchCandlesDay (src/unnamed/part_002): Number() of each value, v || 0
candleGTC(row) ==
  [ts |-> row.ts, o |-> ToNumber(row.o), h |-> ToNumber(row.h), l |-> ToNumber(row.l),
   c |-> ToNumber(row.c), v |-> ToNumber(OrElse(row.v, Num(0)))]

\* its filter: r.ts && isFinite(r.c)
keptGTC(r) == r.ts # 0 /\ GlobalIsFinite(r.c)

docGTC(cur, r, t) ==
  SetMerge(cur,
    [geckoTerminal |-> [pair |-> PAIR, token |-> TOKEN_ADDRESS, o |-> r.o, h |-> r.h,
                        l |-> r.l, c |-> r.c, v |-> r.v, ts |-> r.ts, network |-> NETWORK],
     _updatedAt |-> t])

\* fetchGT_Daily (scripts/backfill/backfillFromGeckoTerminal.js): unary plus on
\* each field.  The code holds ts in ms (row[0] * 1000); the candle here keeps
\* the seconds, 1000 times smaller and in the same order, since the ms of a
\* history of years are more than a 32-bit integer holds.
candleGTA(row) ==
  [ts |-> row.ts, o |-> ToNumber(row.o), h |-> ToNumber(row.h), l |-> ToNumber(row.l),
   c |-> ToNumber(row.c), v |-> ToNumber(row.v)]

\* its filter: Number.isFinite(c.ts) && Number.isFinite(c.c)
keptGTA(k) == NumberIsFinite(k.c)

\* a docGTA that adds the candle's volume to the volume the document holds
docGTAAddsVolume(cur, k, t) ==
  SetMerge(cur,
    [close |-> k.c, high |-> k.h, low |-> k.l, open |-> k.o,
     volumeUSD |-> Plus(OrElse(Field(cur, "volumeUSD"), Num(0)), k.v),
     source_gt |-> TRUE, updatedAt |-> t])

docGTA(cur, k, t) ==
  SetMerge(cur,
    [close |-> k.c, high |-> k.h, low |-> k.l, open |-> k.o, volumeUSD |-> k.v,
     source_gt |-> TRUE, updatedAt |-> t])

----------------------------------------------------------------------------
(* backfillFromCoinGecko.js, two versions *)

\* scripts/backfill/backfillFromCoinGecko.js: the day's entry of byDate
docCGA(cur, v, t) ==
  SetMerge(cur,
    [priceUSD |-> v.priceUSD, volumeUSD |-> Coalesce(v.volumeUSD, Null),
     source |-> "coingecko", ts |-> t])

\* src/unnamed/part_003: the day's entry of byDay
docCGB(cur, day, e, t) ==
  SetMerge(cur,
    [day |-> day, priceUSD |-> e.close, source |-> "coingecko", chain |-> CHAIN,
     contract |-> TOKEN_ADDRESS, ts |-> e.ts, updatedAt |-> t])

----------------------------------------------------------------------------
(* zyptoIngestHourly.js *)

\* an hourlyDoc that keeps the point the hour already has
hourlyDocKeepsFirst(cur, quote, ts) ==
  IF cur # EmptyDoc THEN cur
  ELSE [ts |-> ts, provider |-> quote.provider, priceUSD |-> quote.priceUSD,
        volumeUSD |-> OrElse(quote.volumeUSD, Null), token |-> TOKEN_ADDRESS,
        pair |-> quote.pairAddress]

hourlyDoc(cur, quote, ts) ==
  SetMerge(cur,
    [ts |-> ts, provider |-> quote.provider, priceUSD |-> quote.priceUSD,
     volumeUSD |-> OrElse(quote.volumeUSD, Null), token |-> TOKEN_ADDRESS,
     pair |-> quote.pairAddress])

\* rollupDoc without Math.max / Math.min: high and low follow the last price
rollupDocNoMax(cur, exists, d, quote, dayId, ts) ==
  IF ~exists
  THEN SetOverwrite(cur,
         [date |-> dayId, open |-> quote.priceUSD, high |-> quote.priceUSD,
          low |-> quote.priceUSD, close |-> quote.priceUSD,
          volumeUSD |-> OrElse(quote.volumeUSD, Num(0)), firstTs |-> ts, lastTs |-> ts])
  ELSE SetMerge(cur,
         [high |-> quote.priceUSD,
          low |-> quote.priceUSD,
          close |-> quote.priceUSD,
          volumeUSD |-> Plus(OrElse(Field(d, "volumeUSD"), Num(0)),
                             OrElse(quote.volumeUSD, Num(0))),
          lastTs |-> ts])

\* rollupDoc whose volume is the last quote's, not the sum
rollupDocLastVolume(cur, exists, d, quote, dayId, ts) ==
  IF ~exists
  THEN SetOverwrite(cur,
         [date |-> dayId, open |-> quote.priceUSD, high |-> quote.priceUSD,
          low |-> quote.priceUSD, close |-> quote.priceUSD,
          volumeUSD |-> OrElse(quote.volumeUSD, Num(0)), firstTs |-> ts, lastTs |-> ts])
  ELSE SetMerge(cur,
         [high |-> MathMax(Field(d, "high"), quote.priceUSD),
          low |-> MathMin(Field(d, "low"), quote.priceUSD),
          close |-> quote.priceUSD,
          volumeUSD |-> OrElse(quote.volumeUSD, Num(0)),
          lastTs |-> ts])

\* rollupDoc that writes the whole record anew at every run
rollupDocResetsOpen(cur, exists, d, quote, dayId, ts) ==
  SetOverwrite(cur,
    [date |-> dayId, open |-> quote.priceUSD,
     high |-> IF exists THEN MathMax(Field(d, "high"), quote.priceUSD) ELSE quote.priceUSD,
     low |-> IF exists THEN MathMin(Field(d, "low"), quote.priceUSD) ELSE quote.priceUSD,
     close |-> quote.priceUSD,
     volumeUSD |-> Plus(OrElse(Field(d, "volumeUSD"), Num(0)), OrElse(quote.volumeUSD, Num(0))),
     firstTs |-> ts, lastTs |-> ts])

\* the daily document written from the snapshot (exists, d) read before
rollupDoc(cur, exists, d, quote, dayId, ts) ==
  IF ~exists
  THEN SetOverwrite(cur,
         [date |-> dayId, open |-> quote.priceUSD, high |-> quote.priceUSD,
          low |-> quote.priceUSD, close |-> quote.priceUSD,
          volumeUSD |-> OrElse(quote.volumeUSD, Num(0)), firstTs |-> ts, lastTs |-> ts])
  ELSE SetMerge(cur,
         [high |-> MathMax(Field(d, "high"), quote.priceUSD),
          low |-> MathMin(Field(d, "low"), quote.priceUSD),
          close |-> quote.priceUSD,
          volumeUSD |-> Plus(OrElse(Field(d, "volumeUSD"), Num(0)),
                             OrElse(quote.volumeUSD, Num(0))),
          lastTs |-> ts])

----------------------------------------------------------------------------
(* Batches: batch.set(ref, data, { merge: true }) per row, then commit *)

\* dayId = tsToDay(ts) of a row of the paging GeckoTerminal backfills
dayOfRow(row) == tsToDay(row.ts)

\* ymd(c.ts) of upsertDaily: the day of ts seconds is the day of ts * 1000 ms
ymdOfCandle(k) == tsToDay(k.ts)

\* const id = ymd(row.date * 1000) of the Uniswap v3 backfill
idOfV3(row) == yyyyMmDd(TimeMs(row.date))

\* const [k, v] of byDate.entries()
keyOfEntry(e) == e.k

\* the document a script's set of item x goes to
idOf(script, x) ==
  CASE script = "gtA" -> ymdOfCandle(x)
    [] script = "v2" -> tsToDay(x.date)
    [] script = "gtB" -> dayOfRow(x)
    [] script = "gtC" -> dayOfRow(x)
    [] script = "v3" -> idOfV3(x)
    [] script = "cgA" -> keyOfEntry(x)
    [] script = "cgB" -> x.k

\* the document after a script's set of item x with { merge: true }
docOf(script, cur, x, t) ==
  CASE script = "gtA" -> docGTA(cur, x, t)
    [] script = "v2" -> upsertDocV2(cur, cur, [uniV2USD |-> ToNumber(x.priceUSD)], t)
    [] script = "gtB" -> docGTB(cur, x, t)
    [] script = "gtC" -> docGTC(cur, x, t)
    [] script = "v3" -> docV3(cur, x, t)
    [] script = "cgA" -> docCGA(cur, x.v, t)
    [] script = "cgB" -> docCGB(cur, x.k, x.e, t)

RECURSIVE setsOn(_, _, _, _)
\* the sets of a batch to one document, in order
setsOn(script, cur, xs, t) ==
  IF Len(xs) = 0 THEN cur
  ELSE setsOn(script, docOf(script, cur, Head(xs), t), Tail(xs), t)

\* The sets of one batch, applied in the order of items: the sets to one
\* document fold over that document in order, and a set to one document
\* leaves every other document alone.
ApplyBatch(script, store, items, t) ==
  LET ids == {idOf(script, items[j]) : j \in 1..Len(items)}
      on(id) == LET same(x) == idOf(script, x) = id IN SelectSeq(items, same)
  IN  [id \in (DOMAIN store) \cup ids |->
         IF id \in ids THEN setsOn(script, DataOrEmpty(store, id), on(id), t)
         ELSE store[id]]

\* writeBatch(rows) of the paging GeckoTerminal backfill: one atomic commit
writeBatch(store, rows, t) == ApplyBatch("gtB", store, rows, t)

\* one batch of upsertDaily of the single-fetch GeckoTerminal backfill
commitGTA(store, slice, t) == ApplyBatch("gtA", store, slice, t)

\* the per-document sets of one page of the Promise.all GeckoTerminal backfill
writesGTC(store, batch, t) == ApplyBatch("gtC", store, batch, t)

\* one batch of the Uniswap v3 backfill
commitV3(store, rows, t) == ApplyBatch("v3", store, rows, t)

\* one batch of backfillDaily of the missing-days CoinGecko backfill, its
\* entries [k, v] of byDate
commitCGA(store, entries, t) == ApplyBatch("cgA", store, entries, t)

----------------------------------------------------------------------------
(* Sequential provider writes to one day key: every step is one provider   *)
(* run on a one-row response, or one hourly ingestion, run to completion.  *)

StartMs == Day0 * DayMs

\* sample prices; 0 is the non-positive price a provider may return
Prices == {10, 12}
RawPrices == Prices \cup {0}

Providers ==
  {"uniswap-v2", "uniswap-v3", "geckoterminal", "coingecko", "dexscreener"}

\* the history of one step: who ran, on which day, whether its candle was
\* valid (price finite and > 0) and whether it wrote the day's document
Stamp(prov, variant, day, input, valid, written) ==
  /\ last' = [prov |-> prov, variant |-> variant, day |-> day, input |-> input,
              valid |-> valid, written |-> written,
              repeat |-> /\ last.written /\ written
                         /\ last.prov = prov /\ last.variant = variant
                         /\ last.day = day /\ last.input = input]
  /\ before' = daily
  /\ wrote' = IF valid /\ written THEN wrote \cup {<<prov, day>>} ELSE wrote
  /\ now' = now + 1
  /\ UNCHANGED <<ingested, proc>>

SeqGuard == now - StartMs < MaxWrites

ValidPrice(x) == IsNumber(x) /\ x.n > 0

\* the one-row responses of the providers for Day0 with price p
V2Row(p) == [date |-> Day0 * DaySec, priceUSD |-> StrNum(p)]
V3Row(p) == [date |-> Day0 * DaySec, priceUSD |-> StrNum(p), volumeUSD |-> StrNum(7)]
\* a GeckoTerminal ohlcv row [ts, o, h, l, c, v] closing at p
GTRow(p) ==
  [ts |-> Day0 * DaySec, o |-> Num(p), h |-> Num(p + 1), l |-> Num(p), c |-> Num(p), v |-> Num(5)]
\* a CoinGecko price sample [tsMs, price]
CGSample(p) == [ts |-> Day0 * DayMs, price |-> Num(p)]

\* backfillFromUniswapV2 on a response of one tokenDayData row: the loop body
RunV2(store, p, t) ==
  LET r == V2Row(p)
      day == tsToDay(r.date)
      uniV2USD == ToNumber(r.priceUSD)
  IN  IF rowAcceptedV2(r) THEN upsertDailyV2(store, day, [uniV2USD |-> uniV2USD], t) ELSE store

\* backfillFromUniswapV3 on a response of one tokenDayData row
RunV3(store, p, t) == commitV3(store, <<V3Row(p)>>, t)

\* the single-fetch GeckoTerminal backfill on a response of one row
RunGTA(store, p, t) ==
  LET k == candleGTA(GTRow(p))
  IN  IF keptGTA(k) THEN commitGTA(store, <<k>>, t) ELSE store

\* the paging GeckoTerminal backfill (writeBatch) on a page of one row
RunGTB(store, p, t) == writeBatch(store, <<GTRow(p)>>, t)

\* the paging GeckoTerminal backfill (Promise.all) on a page of one row
RunGTC(store, p, t) ==
  LET r == candleGTC(GTRow(p))
  IN  IF keptGTC(r) THEN writesGTC(store, <<r>>, t) ELSE store

\* the missing-days CoinGecko backfill on a response of one price sample
RunCGA(store, p, t) ==
  LET smp == CGSample(p)
      k == ymd(smp.ts)
      v == [priceUSD |-> ToNumber(smp.price), volumeUSD |-> Undefined]
      have == DOMAIN store
  IN  IF k \in have THEN store ELSE Put(store, k, docCGA(DataOrEmpty(store, k), v, t))

\* the CoinGecko backfill of src/unnamed/part_003 on a response of one price sample
RunCGB(store, p, t) ==
  LET smp == CGSample(p)
      day == ymd(smp.ts)
      e == [ts |-> smp.ts, close |-> ToNumber(smp.price)]
  IN  IF NumberIsFinite(e.close)
      THEN Put(store, day, docCGB(DataOrEmpty(store, day), day, e, t))
      ELSE store

SeqV2 ==
  \E p \in RawPrices :
    /\ SeqGuard
    /\ daily' = RunV2(daily, p, now)
    /\ UNCHANGED hourly
    /\ Stamp("uniswap-v2", "v2", Day0, p, ValidPrice(Num(p)), rowAcceptedV2(V2Row(p)))

SeqV3 ==
  \E p \in RawPrices :
    /\ SeqGuard
    /\ daily' = RunV3(daily, p, now)
    /\ UNCHANGED hourly
    /\ Stamp("uniswap-v3", "v3", Day0, p, ValidPrice(Num(p)), TRUE)

SeqGTA ==
  \E p \in RawPrices :
    /\ SeqGuard
    /\ daily' = RunGTA(daily, p, now)
    /\ UNCHANGED hourly
    /\ Stamp("geckoterminal", "A", Day0, p, ValidPrice(Num(p)), keptGTA(candleGTA(GTRow(p))))

SeqGTB ==
  \E p \in RawPrices :
    /\ SeqGuard
    /\ daily' = RunGTB(daily, p, now)
    /\ UNCHANGED hourly
    /\ Stamp("geckoterminal", "B", Day0, p, ValidPrice(Num(p)), TRUE)

SeqGTC ==
  \E p \in RawPrices :
    /\ SeqGuard
    /\ daily' = RunGTC(daily, p, now)
    /\ UNCHANGED hourly
    /\ Stamp("geckoterminal", "C", Day0, p, ValidPrice(Num(p)), keptGTC(candleGTC(GTRow(p))))

SeqCGA ==
  \E p \in RawPrices :
    /\ SeqGuard
    /\ daily' = RunCGA(daily, p, now)
    /\ UNCHANGED hourly
    /\ Stamp("coingecko", "A", Day0, p, ValidPrice(Num(p)), Day0 \notin DOMAIN daily)

SeqCGB ==
  \E p \in RawPrices :
    /\ SeqGuard
    /\ daily' = RunCGB(daily, p, now)
    /\ UNCHANGED hourly
    /\ Stamp("coingecko", "B", Day0, p, ValidPrice(Num(p)), TRUE)

\* writeHourlyAndDaily run without interleaving
writeHourlyAndDaily(quote) ==
  LET hourId == ymdh(now)
      dayId == ymd(now)
      ts == now
      exists == Exists(daily, dayId)
      d == DataOrEmpty(daily, dayId)
  IN  /\ hourly' = Put(hourly, hourId, hourlyDoc(DataOrEmpty(hourly, hourId), quote, ts))
      /\ daily' = Put(daily, dayId, rollupDoc(d, exists, d, quote, dayId, ts))

\* one hourly ingestion whose quote passed pullDexScreenerQuote
SeqHourly ==
  \E p \in Prices :
    LET quote == [provider |-> "dexscreener", priceUSD |-> Num(p), volumeUSD |-> Num(3),
                  pairAddress |-> PAIR]
    IN  /\ SeqGuard
        /\ writeHourlyAndDaily(quote)
        /\ Stamp("dexscreener", "hourly", ymd(now), p, TRUE, TRUE)

NoWrite ==
  [prov |-> "none", variant |-> "none", day |-> 0, input |-> 0, valid |-> FALSE,
   written |-> FALSE, repeat |-> FALSE]

InitSeq ==
  /\ daily = <<>>
  /\ hourly = <<>>
  /\ now = StartMs
  /\ last = NoWrite
  /\ before = <<>>
  /\ wrote = {}
  /\ ingested = <<>>
  /\ proc = <<>>

NextSeq ==
  \/ SeqV2
  \/ SeqV3
  \/ SeqGTA
  \/ SeqGTB
  \/ SeqGTC
  \/ SeqCGA
  \/ SeqCGB
  \/ SeqHourly

SpecSeq == InitSeq /\ [][NextSeq]_vars

\* the elements of a sequence
RECURSIVE SeqToSet(_)
SeqToSet(q) == IF Len(q) = 0 THEN {} ELSE {Head(q)} \cup SeqToSet(Tail(q))

----------------------------------------------------------------------------
(* Hourly ingestions, one after the other: every step is one run of the     *)
(* ingestor whose quote passed pullDexScreenerQuote, and the time to the    *)
(* next run.                                                               *)

\* the first run is at 22:00 UTC of Day0, so that a later run is on the next day
StartHourlyMs == Day0 * DayMs + 22 * HourMs

HourlyPrices == {100, 150, 50}
HourlyVolumes == {0, 3}
\* the time between two runs: a re-run in the same hour, or the next hour
Gaps == {1, HourMs}

Quote(p, v) ==
  [provider |-> "dexscreener", priceUSD |-> Num(p), volumeUSD |-> Num(v), pairAddress |-> PAIR]

Ingest ==
  \E p \in HourlyPrices, v \in HourlyVolumes, gap \in Gaps :
    /\ Len(ingested) < MaxIngest
    /\ writeHourlyAndDaily(Quote(p, v))
    /\ ingested' = Append(ingested,
                     [day |-> ymd(now), hour |-> ymdh(now), price |-> p, volume |-> v, ts |-> now])
    /\ now' = now + gap
    /\ UNCHANGED <<last, before, wrote, proc>>

InitHourly ==
  /\ daily = <<>>
  /\ hourly = <<>>
  /\ now = StartHourlyMs
  /\ last = NoWrite
  /\ before = <<>>
  /\ wrote = {}
  /\ ingested = <<>>
  /\ proc = <<>>

NextHourly == Ingest

SpecHourly == InitHourly /\ [][NextHourly]_vars

\* the prices of the quotes ingested on a day, in order
RECURSIVE PricesOn(_, _)
PricesOn(q, day) ==
  IF Len(q) = 0 THEN <<>>
  ELSE IF Head(q).day = day THEN <<Head(q).price>> \o PricesOn(Tail(q), day)
       ELSE PricesOn(Tail(q), day)

MaxOf(S) == CHOOSE x \in S : \A y \in S : y <= x
MinOf(S) == CHOOSE x \in S : \A y \in S : x <= y

\* C8: after any sequence of hourly ingestions, the high of a day record is
\* the maximum and its low the minimum of the prices of all quotes ingested
\* on that day; quotes 100, 150 give high 150, low 100, and a further 50
\* gives high 150, low 50.
C8_HighLowAreMaxMin ==
  \A id \in DOMAIN daily :
    LET ps == PricesOn(ingested, id)
        S == SeqToSet(ps)
    IN  /\ S # {}
        /\ daily[id]["high"] = Num(MaxOf(S))
        /\ daily[id]["low"] = Num(MinOf(S))
        /\ ps = <<100, 150>> => (daily[id]["high"] = Num(150) /\ daily[id]["low"] = Num(100))
        /\ ps = <<100, 150, 50>> => (daily[id]["high"] = Num(150) /\ daily[id]["low"] = Num(50))

\* a day seeded with 100, then updated with 150 and with 50
C8_Witness ==
  /\ Len(ingested) = 3
  /\ PricesOn(ingested, ymd(StartHourlyMs)) = <<100, 150, 50>>
  /\ daily[ymd(StartHourlyMs)]["open"] = Num(100)
  /\ daily[ymd(StartHourlyMs)]["high"] = Num(150)
  /\ daily[ymd(StartHourlyMs)]["low"] = Num(50)

\* the ingestions of day id, in order
IngestedOn(id) ==
  LET onDay(x) == x.day = id
  IN  SelectSeq(ingested, onDay)

\* the ingestions of hour h, in order
IngestedIn(h) ==
  LET inHour(x) == x.hour = h
  IN  SelectSeq(ingested, inHour)

RECURSIVE SumVolumes(_)
SumVolumes(q) == IF Len(q) = 0 THEN 0 ELSE Head(q).volume + SumVolumes(Tail(q))

\* C23: the volumeUSD of a day record made by hourly ingestions alone is the
\* sum of the volumes of the quotes ingested on that day.
C23_DailyVolumeIsSum ==
  \A id \in DOMAIN daily :
    daily[id]["volumeUSD"] = Num(SumVolumes(IngestedOn(id)))

\* three ingestions on one day, of volume 3 each
C23_Witness ==
  /\ Len(IngestedOn(ymd(StartHourlyMs))) = 3
  /\ \A j \in 1..3 : ingested[j].volume = 3
  /\ daily[ymd(StartHourlyMs)]["volumeUSD"] = Num(9)

\* the hours of the ingestions so far
IngestedHours == {ingested[j].hour : j \in 1..Len(ingested)}

\* the last ingestion of hour h
LastIn(h) == IngestedIn(h)[Len(IngestedIn(h))]

\* hour h's point holds the price, provider, pair and time of the last
\* ingestion of that hour
HoldsLastIn(h) ==
  /\ hourly[h]["priceUSD"] = Num(LastIn(h).price)
  /\ hourly[h]["provider"] = "dexscreener"
  /\ hourly[h]["pair"] = PAIR
  /\ hourly[h]["ts"] = LastIn(h).ts

\* C24 as stated: one point per hour ingested, holding the price, the volume,
\* the provider, the pair and the time of the hour's last ingestion.
C24_LastWriteWinsSameVolume ==
  /\ DOMAIN hourly = IngestedHours
  /\ \A h \in DOMAIN hourly :
       /\ HoldsLastIn(h)
       /\ hourly[h]["volumeUSD"] = Num(LastIn(h).volume)

\* C24: one point per hour ingested, holding the price, the provider, the
\* pair and the time of the hour's last ingestion, and its volume, null when
\* that volume is 0.
C24_LastWriteWins ==
  /\ DOMAIN hourly = IngestedHours
  /\ \A h \in DOMAIN hourly :
       /\ HoldsLastIn(h)
       /\ hourly[h]["volumeUSD"] =
            IF LastIn(h).volume = 0 THEN Null ELSE Num(LastIn(h).volume)

\* three ingestions in one hour, the last of another price than the first
C24_Witness ==
  /\ Len(ingested) = 3
  /\ Cardinality(DOMAIN hourly) = 1
  /\ ingested[1].price # ingested[3].price
  /\ ingested[3].volume = 3
  /\ hourly[ymdh(StartHourlyMs)]["priceUSD"] = Num(ingested[3].price)

\* C27: a day record made by hourly ingestions alone has low <= open <= high
\* and low <= close <= high; open and firstTs are those of the day's first
\* ingestion, close and lastTs those of its last.
C27_OpenCloseWithinRange ==
  \A id \in DOMAIN daily :
    LET q == IngestedOn(id)
        d == daily[id]
    IN  /\ Len(q) > 0
        /\ ~Less(d["open"], d["low"]) /\ ~Less(d["high"], d["open"])
        /\ ~Less(d["close"], d["low"]) /\ ~Less(d["high"], d["close"])
        /\ d["open"] = Num(q[1].price) /\ d["firstTs"] = q[1].ts
        /\ d["close"] = Num(q[Len(q)].price) /\ d["lastTs"] = q[Len(q)].ts

\* three ingestions on one day: open 100, then 50, then close 150
C27_Witness ==
  /\ Len(IngestedOn(ymd(StartHourlyMs))) = 3
  /\ PricesOn(ingested, ymd(StartHourlyMs)) = <<100, 50, 150>>
  /\ daily[ymd(StartHourlyMs)]["open"] = Num(100)
  /\ daily[ymd(StartHourlyMs)]["close"] = Num(150)
  /\ daily[ymd(StartHourlyMs)]["firstTs"] < daily[ymd(StartHourlyMs)]["lastTs"]

----------------------------------------------------------------------------
(* Properties of sequential provider writes (SpecSeq) *)

\* a field as a sequence of zero or one value, so that absent fields compare
Opt(doc, f) == IF Has(doc, f) THEN <<doc[f]>> ELSE <<>>

\* the write-time markers of a document
Markers == {"updatedAt", "_updatedAt"}

StripMarkers(doc) == [f \in (DOMAIN doc) \ Markers |-> doc[f]]

\* the namespaces holding one provider's raw fields, and their owners
Namespaces == {"geckoTerminal", "uniV3", "uniV2USD"}

NsOwner(ns) ==
  CASE ns = "geckoTerminal" -> "geckoterminal"
    [] ns = "uniV3" -> "uniswap-v3"
    [] ns = "uniV2USD" -> "uniswap-v2"

BackfillProviders == {"uniswap-v2", "uniswap-v3", "geckoterminal", "coingecko"}

\* C2: a write by one provider leaves every field held under another
\* provider's namespace (geckoTerminal, uniV3, uniV2USD) of every document
\* with exactly the value it had before that write.
C2_OtherNamespacesKept ==
  \A ns \in Namespaces :
    NsOwner(ns) # last.prov =>
      \A id \in DOMAIN before :
        /\ id \in DOMAIN daily
        /\ Opt(daily[id], ns) = Opt(before[id], ns)

\* a Uniswap v2 write onto a document that held the two other namespaces
C2_Witness ==
  /\ last.prov = "uniswap-v2"
  /\ last.written
  /\ Exists(before, Day0)
  /\ Has(before[Day0], "geckoTerminal")
  /\ Has(before[Day0], "uniV3")
  /\ Has(daily[Day0], "uniV2USD")

\* the provider price fields of a document
ProviderPrices(doc) ==
  << Field(doc, "cgUSD"),
     Field(doc, "uniV2USD"),
     IF Has(doc, "uniV3") THEN doc["uniV3"]["priceUSD"] ELSE Undefined,
     IF Has(doc, "geckoTerminal") THEN ToNumber(doc["geckoTerminal"]["c"]) ELSE Undefined >>

\* C3: after a reconciling write (upsertDaily of the Uniswap v2 backfill, the
\* writer that derives the canonical price), priceUSD is the arithmetic mean
\* of all provider price fields present in the record: 10 and 12 give 11.
C3_CanonicalIsMean ==
  (last.prov = "uniswap-v2" /\ last.written) =>
    Field(daily[last.day], "priceUSD") = mean(ProviderPrices(daily[last.day]))

\* C4: the sources of a day record are the union of the names of the backfill
\* providers that wrote a valid candle for that day.
C4_SourcesAreUnion ==
  \A id \in DOMAIN daily :
    SeqToSet(IF Has(daily[id], "sources") THEN daily[id]["sources"] ELSE <<>>)
      = {pr \in BackfillProviders : <<pr, id>> \in wrote}

\* C5 as stated: reconciling the same candle of the same provider and day a
\* second time leaves the store identical to the store after the first time.
C5_SecondWriteIdentical ==
  (last.repeat /\ last.prov \in BackfillProviders) => daily = before

\* C5 amended: reconciling the same candle of the same provider and day a
\* second time leaves every document identical but for its write-time marker
\* (updatedAt, _updatedAt).
C5_SecondWriteSameButMarker ==
  (last.repeat /\ last.prov \in BackfillProviders) =>
    /\ DOMAIN daily = DOMAIN before
    /\ \A id \in DOMAIN daily : StripMarkers(daily[id]) = StripMarkers(before[id])

\* the same Uniswap v2 candle upserted twice in a row, the marker moved on
C5_Witness ==
  /\ last.repeat
  /\ last.variant = "v2"
  /\ daily[Day0]["updatedAt"] # before[Day0]["updatedAt"]
  /\ daily[Day0]["sources"] = <<"uniswap-v2">>

\* C6: writes by CoinGecko and by Uniswap v2 to the same day key give the same
\* record (but for the write-time marker) whichever provider writes first.
C6_Commutes ==
  \A a, b \in Prices :
    LET cgFirst == RunV2(RunCGB(daily, a, now), b, now + 1)
        v2First == RunCGB(RunV2(daily, b, now), a, now + 1)
    IN  StripMarkers(cgFirst[Day0]) = StripMarkers(v2First[Day0])

\* the canonical fields of a day record
CanonicalFields == {"priceUSD", "open", "high", "low", "close", "volumeUSD"}

\* C7: a GeckoTerminal backfill write to an existing day record that no
\* GeckoTerminal run wrote canonical fields to leaves the canonical priceUSD,
\* open, high, low, close and volumeUSD the record held as they were.
C7_GTNonDestructive ==
  (/\ last.prov = "geckoterminal"
   /\ last.written
   /\ Exists(before, last.day)
   /\ ~Has(DataOrEmpty(before, last.day), "source_gt")) =>
    \A f \in CanonicalFields \cap (DOMAIN before[last.day]) :
      Opt(daily[last.day], f) = Opt(before[last.day], f)

----------------------------------------------------------------------------
(* Pipelines running beside each other on one day key (SpecConc).  The store *)
(* calls are the suspension points: upsertDaily of the Uniswap v2 backfill   *)
(* is a get and a later set, writeHourlyAndDaily is a set of the hourly      *)
(* point, a get of the day and a later set of the day; a batch commit of     *)
(* another provider is one atomic step.                                      *)

HourlyRuns == {1, 2}

\* the quote of hourly run i: 100 with volume 3, then 150 with volume 4
QuoteOfRun(i) == Quote(50 + 50 * i, 2 + i)

IdleRun == [pc |-> "idle", quote |-> Quote(0, 0), ts |-> 0, exists |-> FALSE, d |-> <<>>]

InitConc ==
  /\ daily = <<>>
  /\ hourly = <<>>
  /\ now = StartMs
  /\ last = NoWrite
  /\ before = <<>>
  /\ wrote = {}
  /\ ingested = <<>>
  /\ proc = [v2 |-> [pc |-> "idle", prev |-> <<>>, p |-> 0, n |-> 0, committed |-> 0],
             gt |-> [n |-> 0, committed |-> 0],
             h |-> [i \in HourlyRuns |-> IdleRun]]

\* upsertDaily, line 85: const snap = await ref.get()
V2Get ==
  \E p \in Prices :
    /\ proc.v2.pc = "idle"
    /\ proc.v2.n < MaxOps
    /\ proc' = [proc EXCEPT !.v2.pc = "set", !.v2.prev = DataOrEmpty(daily, Day0), !.v2.p = p]
    /\ UNCHANGED <<daily, hourly, now, last, before, wrote, ingested>>

\* upsertDaily, lines 88-105: the payload from the snapshot, await ref.set(payload, merge)
V2Set ==
  /\ proc.v2.pc = "set"
  /\ daily' = Put(daily, Day0,
                upsertDocV2(DataOrEmpty(daily, Day0), proc.v2.prev,
                            [uniV2USD |-> Num(proc.v2.p)], now))
  /\ now' = now + 1
  /\ proc' = [proc EXCEPT !.v2.pc = "idle", !.v2.n = @ + 1, !.v2.committed = proc.v2.p]
  /\ UNCHANGED <<hourly, last, before, wrote, ingested>>

\* another provider's write: writeBatch of the paging GeckoTerminal backfill
GTCommit ==
  \E p \in Prices :
    /\ proc.gt.n < MaxOps
    /\ daily' = RunGTB(daily, p, now)
    /\ now' = now + 1
    /\ proc' = [proc EXCEPT !.gt.n = @ + 1, !.gt.committed = p]
    /\ UNCHANGED <<hourly, last, before, wrote, ingested>>

\* writeHourlyAndDaily, lines 87-97: the ids, ts, and await hourlyRef.set(...)
HourlySet(i) ==
  LET quote == QuoteOfRun(i)
  IN  /\ proc.h[i].pc = "idle"
      /\ hourly' = Put(hourly, ymdh(now), hourlyDoc(DataOrEmpty(hourly, ymdh(now)), quote, now))
      /\ proc' = [proc EXCEPT !.h[i].pc = "get", !.h[i].quote = quote, !.h[i].ts = now]
      /\ now' = now + 1
      /\ UNCHANGED <<daily, last, before, wrote, ingested>>

\* writeHourlyAndDaily, line 101: const snap = await dailyRef.get()
HourlyGet(i) ==
  /\ proc.h[i].pc = "get"
  /\ proc' = [proc EXCEPT !.h[i].pc = "set",
                          !.h[i].exists = Exists(daily, ymd(proc.h[i].ts)),
                          !.h[i].d = DataOrEmpty(daily, ymd(proc.h[i].ts))]
  /\ UNCHANGED <<daily, hourly, now, last, before, wrote, ingested>>

\* writeHourlyAndDaily, lines 102-113: await dailyRef.set(...) from the snapshot
HourlySetDaily(i) ==
  LET r == proc.h[i]
      dayId == ymd(r.ts)
  IN  /\ r.pc = "set"
      /\ daily' = Put(daily, dayId,
                    rollupDoc(DataOrEmpty(daily, dayId), r.exists, r.d, r.quote, dayId, r.ts))
      /\ ingested' = Append(ingested,
                       [day |-> dayId, hour |-> ymdh(r.ts), price |-> r.quote.priceUSD.n,
                        volume |-> r.quote.volumeUSD.n, ts |-> r.ts])
      /\ proc' = [proc EXCEPT !.h[i].pc = "done"]
      /\ now' = now + 1
      /\ UNCHANGED <<hourly, last, before, wrote>>

NextConc ==
  \/ V2Get
  \/ V2Set
  \/ GTCommit
  \/ \E i \in HourlyRuns : HourlySet(i)
  \/ \E i \in HourlyRuns : HourlyGet(i)
  \/ \E i \in HourlyRuns : HourlySetDaily(i)

SpecConc == InitConc /\ [][NextConc]_vars

RECURSIVE VolumeOn(_, _)
\* the sum of the volumes of the quotes ingested on a day
VolumeOn(q, day) ==
  IF Len(q) = 0 THEN 0
  ELSE (IF Head(q).day = day THEN Head(q).volume ELSE 0) + VolumeOn(Tail(q), day)

\* C1: no lost update on a day key.  Whatever the interleaving of the store
\* reads and writes of the pipelines, the record holds the last value each
\* pipeline committed: the geckoTerminal namespace is the last candle the
\* GeckoTerminal backfill committed, uniV2USD the last price upsertDaily
\* committed, and the daily volumeUSD the sum of the volumes of the hourly
\* runs that committed their day write.
C1_NoLostUpdate ==
  LET doc == DataOrEmpty(daily, Day0)
  IN  /\ proc.gt.n > 0 =>
           /\ Has(doc, "geckoTerminal")
           /\ doc["geckoTerminal"]["c"] = Num(proc.gt.committed)
      /\ proc.v2.n > 0 =>
           /\ Has(doc, "uniV2USD")
           /\ doc["uniV2USD"] = Num(proc.v2.committed)
      /\ Len(ingested) > 0 =>
           /\ Has(doc, "volumeUSD")
           /\ doc["volumeUSD"] = Num(VolumeOn(ingested, Day0))

----------------------------------------------------------------------------
(* One run of a backfill script against the provider and the store          *)
(* (SpecRun).  A step is the code between two awaits: a fetch with the       *)
(* response the provider gives, or a batch commit that the store accepts or  *)
(* rejects.  A rejected promise that is not caught ends the run in the       *)
(* script's catch handler with process.exit(1).                              *)

Scripts == {"gtA", "gtB", "cgA"}

\* const batchSize = 450 of upsertDaily; if (ops >= 450) of backfillDaily
batchSize == 450
CG_OPS_LIMIT == 450
\* if (total >= 20000) break, the safety cap of the paging backfill
SAFETY_CAP == 20000

Min(a, b) == IF a < b THEN a ELSE b

BufferSizes == {0, 1, 2, 449, 450, 451, 900, 901, MaxBuffered}

\* the provider's candle of day number i of its history: [ts, o, h, l, c, v]
RowOfDay(i) ==
  [ts |-> (Day0 + i) * DaySec, o |-> Num(10 + (i % 3)), h |-> Num(11 + (i % 3)),
   l |-> Num(10 + (i % 3)), c |-> Num(10 + (i % 3)), v |-> Num(5)]

\* a response of n rows, newest first
Response(n) == [j \in 1..n |-> RowOfDay(n - j)]

\* candles.sort((a, b) => a.ts - b.ts): stable, ascending.  placed pairs the
\* place of a candle in the sorted array with its place in cs.
SortByTs(cs) ==
  LET n == Len(cs)
      placed == {<<Cardinality({k \in 1..n : \/ cs[k].ts < cs[j].ts
                                             \/ (cs[k].ts = cs[j].ts /\ k <= j)}), j>> :
                   j \in 1..n}
      at(r) == (CHOOSE p \in placed : p[1] = r)[2]
  IN  [r \in 1..n |-> cs[at(r)]]

\* list.map(...).filter(...) of fetchGT_Daily
candlesGTA(list) ==
  LET mapped == [j \in 1..Len(list) |-> candleGTA(list[j])]
  IN  SelectSeq(mapped, keptGTA)

\* a chunk that takes all that is left: the slice without its upper end
sliceAll(cs, i) == SubSeq(cs, i + 1, Len(cs))

\* candles.slice(i, i + batchSize)
slice(cs, i) == SubSeq(cs, i + 1, Min(i + batchSize, Len(cs)))

\* the entries of byDate of getCGPricesDaysMax for a response of n daily
\* samples, in insertion order: [k, v].  The sample of day d is stamped
\* d * DayMs, whose key ymd(d * DayMs) is d; the key is written without the
\* product, which for d > 24 is more than a 32-bit integer holds.
byDateOf(n) ==
  [j \in 1..n |->
     [k |-> Day0 + j - 1,
      v |-> [priceUSD |-> ToNumber(Num(10 + (j % 3))), volumeUSD |-> Undefined]]]

\* the entries the loop of backfillDaily writes: those whose day is not in have
missingOf(entries, have) ==
  LET isMissing(e) == e.k \notin have
  IN  SelectSeq(entries, isMissing)

\* the ops of the next batch: up to the commit at ops >= 450, or the final one
opsOf(todo, i) == SubSeq(todo, i + 1, Min(i + CG_OPS_LIMIT, Len(todo)))

\* u.searchParams.set("limit", "1000")
PAGE_LIMIT == 1000

\* the statuses of a response that is not ok: the soft limit, a rate limit, a
\* server error, a bad request
NotOk == {"401", "429", "500", "400"}

\* Math.floor(Date.now() / 1000) of a runner that starts on the day after the
\* provider's newest candle, the provider holding hist days from Day0 on
LocalSec(hist) == (Day0 + hist) * DaySec

NewRun(script, hist) ==
  [script |-> script, pc |-> "fetch", status |-> "running",
   hist |-> hist,       \* the days of history the provider holds, from Day0 on
   buf |-> <<>>,        \* candles (gtA), entries to write (cgA), the page's rows (gtB)
   n |-> 0,             \* the number of records buffered by the fetch
   i |-> 0,             \* records handed to committed batches so far
   written |-> 0,       \* the script's own count of records written
   beforeTs |-> LocalSec(hist),  \* the paging cursor before
   skip |-> 0,          \* the paging cursor skip of the subgraph queries
   total |-> 0,         \* rows fetched so far by the paging loop
   pages |-> 0,         \* pages fetched
   asked |-> <<>>,      \* history: the cursors before of the page requests sent
   first |-> "none",    \* history: the answer to the first page request
   err |-> "none",      \* history: the status of the response that was not ok
   short |-> FALSE,     \* history: a page shorter than the limit has come
   late |-> 0,          \* history: page requests sent after a page shorter than the limit
   commits |-> <<>>,    \* history: the sizes of the committed batches
   failedAt |-> 0]      \* history: the batch whose commit was rejected

InitRun ==
  /\ daily = <<>>
  /\ hourly = <<>>
  /\ now = (Day0 + HistDays) * DayMs
  /\ last = NoWrite
  /\ before = <<>>
  /\ wrote = {}
  /\ ingested = <<>>
  /\ proc \in {NewRun(sc, IF sc = "gtB" THEN h ELSE 0) : sc \in Scripts, h \in 0..HistDays}

RunFrame == UNCHANGED <<hourly, last, before, wrote, ingested>>

Answer(r, a) == IF r.first = "none" THEN a ELSE r.first

\* history: one more page request, counted when a short page has come before
Late(r) == IF r.short THEN r.late + 1 ELSE r.late

\* --- scripts/backfill/backfillFromGeckoTerminal.js: main, fetchGT_Daily, upsertDaily

\* HTTP 401: fetchGT_Daily returns { candles: [], softLimited: true }; main
\* logs "no candles returned" and exits 0
GTAFetch401 ==
  /\ proc.script = "gtA" /\ proc.pc = "fetch"
  /\ proc' = [proc EXCEPT !.pc = "done", !.status = "success", !.first = "401"]
  /\ UNCHANGED <<daily, now>> /\ RunFrame

\* another status that is not ok: fetchGT_Daily throws, main exits 1
GTAFetchError ==
  \E st \in NotOk \ {"401"} :
    /\ proc.script = "gtA" /\ proc.pc = "fetch"
    /\ proc' = [proc EXCEPT !.pc = "done", !.status = "failed", !.first = st, !.err = st]
    /\ UNCHANGED <<daily, now>> /\ RunFrame

\* 200 with an ohlcv_list of n rows: candles mapped, filtered and sorted
GTAFetchOk ==
  \E n \in BufferSizes :
    LET candles == SortByTs(candlesGTA(Response(n)))
    IN  /\ proc.script = "gtA" /\ proc.pc = "fetch"
        /\ proc' = IF Len(candles) = 0
                   THEN [proc EXCEPT !.pc = "done", !.status = "success", !.first = "ok"]
                   ELSE [proc EXCEPT !.pc = "commit", !.buf = candles, !.n = Len(candles),
                                     !.first = "ok"]
        /\ UNCHANGED <<daily, now>> /\ RunFrame

\* one turn of the loop of upsertDaily whose batch.commit() resolves
GTACommitOk ==
  LET sl == slice(proc.buf, proc.i)
      i2 == proc.i + batchSize
  IN  /\ proc.script = "gtA" /\ proc.pc = "commit"
      /\ daily' = commitGTA(daily, sl, now)
      /\ now' = now + 1
      /\ proc' = [proc EXCEPT !.i = proc.i + Len(sl),
                              !.written = @ + Len(sl),
                              !.commits = Append(@, Len(sl)),
                              !.pc = IF i2 < Len(proc.buf) THEN "commit" ELSE "done",
                              !.status = IF i2 < Len(proc.buf) THEN "running" ELSE "success"]
      /\ RunFrame

\* one turn of the loop of upsertDaily whose batch.commit() rejects: none of
\* the batch is written, the error reaches main's catch, exit 1
GTACommitFail ==
  /\ proc.script = "gtA" /\ proc.pc = "commit"
  /\ proc' = [proc EXCEPT !.pc = "done", !.status = "failed",
                          !.failedAt = Len(proc.commits) + 1]
  /\ UNCHANGED <<daily, now>> /\ RunFrame

\* --- the paging GeckoTerminal backfill (src/unnamed/part_001): fetchPage, writeBatch

\* the day the cursor points into
CursorDay(r) == tsToDay(r.beforeTs)

\* the rows the provider holds at or before the cursor, newest first, at most
\* the limit asked for
PageRows(r) ==
  LET top == Min(CursorDay(r), Day0 + r.hist - 1) - Day0
      m == IF top < 0 THEN 0 ELSE Min(PAGE_LIMIT, top + 1)
  IN  [j \in 1..m |-> RowOfDay(top + 1 - j)]

\* a status that is not ok, 401 included: fetchPage throws, the catch exits 1
GTBFetchNotOk ==
  \E st \in NotOk :
    /\ proc.script = "gtB" /\ proc.pc = "fetch"
    /\ proc' = [proc EXCEPT !.pc = "done", !.status = "failed", !.pages = @ + 1, !.asked = Append(@, proc.beforeTs),
                            !.late = Late(proc),
                            !.first = Answer(proc, st), !.err = st]
    /\ UNCHANGED <<daily, now>> /\ RunFrame

\* 200: an empty list ends the loop, rows go to writeBatch
GTBFetchOk ==
  LET rows == PageRows(proc)
  IN  /\ proc.script = "gtB" /\ proc.pc = "fetch"
      /\ proc' = IF Len(rows) = 0
                 THEN [proc EXCEPT !.pc = "done", !.status = "success", !.pages = @ + 1, !.asked = Append(@, proc.beforeTs),
                                   !.late = Late(proc), !.short = TRUE,
                                   !.first = Answer(proc, "ok")]
                 ELSE [proc EXCEPT !.pc = "commit", !.buf = rows, !.pages = @ + 1, !.asked = Append(@, proc.beforeTs),
                                   !.late = Late(proc), !.short = Len(rows) < PAGE_LIMIT,
                                   !.first = Answer(proc, "ok")]
      /\ UNCHANGED <<daily, now>> /\ RunFrame

\* a GTBWriteOk whose next cursor is the last row's own timestamp
GTBWriteOkKeepsLast ==
  LET rows == proc.buf
      total == proc.total + Len(rows)
      lastTs == rows[Len(rows)].ts
  IN  /\ proc.script = "gtB" /\ proc.pc = "commit"
      /\ daily' = writeBatch(daily, rows, now)
      /\ now' = now + 1
      /\ proc' = [proc EXCEPT !.total = total, !.written = total, !.i = total,
                              !.commits = Append(@, Len(rows)),
                              !.beforeTs = lastTs,
                              !.buf = <<>>,
                              !.pc = IF total >= SAFETY_CAP THEN "done" ELSE "fetch",
                              !.status = IF total >= SAFETY_CAP THEN "success" ELSE "running"]
      /\ RunFrame

\* writeBatch resolves: total, the cursor, the safety cap
GTBWriteOk ==
  LET rows == proc.buf
      total == proc.total + Len(rows)
      lastTs == rows[Len(rows)].ts
  IN  /\ proc.script = "gtB" /\ proc.pc = "commit"
      /\ daily' = writeBatch(daily, rows, now)
      /\ now' = now + 1
      /\ proc' = [proc EXCEPT !.total = total, !.written = total, !.i = total,
                              !.commits = Append(@, Len(rows)),
                              !.beforeTs = lastTs - 1,
                              !.buf = <<>>,
                              !.pc = IF total >= SAFETY_CAP THEN "done" ELSE "fetch",
                              !.status = IF total >= SAFETY_CAP THEN "success" ELSE "running"]
      /\ RunFrame

\* a writeBatch that rejects after its first set has reached the store
GTBWriteFailPartial ==
  /\ proc.script = "gtB" /\ proc.pc = "commit"
  /\ daily' = writeBatch(daily, SubSeq(proc.buf, 1, 1), now)
  /\ now' = now + 1
  /\ proc' = [proc EXCEPT !.pc = "done", !.status = "failed",
                          !.failedAt = Len(proc.commits) + 1]
  /\ RunFrame

\* writeBatch rejects: the catch exits 1
GTBWriteFail ==
  /\ proc.script = "gtB" /\ proc.pc = "commit"
  /\ proc' = [proc EXCEPT !.pc = "done", !.status = "failed",
                          !.failedAt = Len(proc.commits) + 1]
  /\ UNCHANGED <<daily, now>> /\ RunFrame

\* --- scripts/backfill/backfillFromCoinGecko.js: backfillDaily

\* a status that is not ok: getCGPricesDaysMax throws, exit 1
CGAFetchError ==
  \E st \in NotOk :
    /\ proc.script = "cgA" /\ proc.pc = "fetch"
    /\ proc' = [proc EXCEPT !.pc = "done", !.status = "failed", !.first = st, !.err = st]
    /\ UNCHANGED <<daily, now>> /\ RunFrame

\* 200 with n daily samples: byDate
CGAFetchOk ==
  \E n \in BufferSizes :
    /\ proc.script = "cgA" /\ proc.pc = "fetch"
    /\ proc' = [proc EXCEPT !.pc = "snapshot", !.buf = byDateOf(n), !.first = "ok"]
    /\ UNCHANGED <<daily, now>> /\ RunFrame

\* const snap = await db.collection(...).get(): the ids the store has
CGASnapshot ==
  LET have == DOMAIN daily
      todo == missingOf(proc.buf, have)
  IN  /\ proc.script = "cgA" /\ proc.pc = "snapshot"
      /\ proc' = IF Len(todo) = 0
                 THEN [proc EXCEPT !.pc = "done", !.status = "success", !.buf = todo]
                 ELSE [proc EXCEPT !.pc = "commit", !.buf = todo, !.n = Len(todo)]
      /\ UNCHANGED <<daily, now>> /\ RunFrame

\* the loop up to a batch.commit() that resolves
CGACommitOk ==
  LET ops == opsOf(proc.buf, proc.i)
      i2 == proc.i + Len(ops)
  IN  /\ proc.script = "cgA" /\ proc.pc = "commit"
      /\ daily' = commitCGA(daily, ops, now)
      /\ now' = now + 1
      /\ proc' = [proc EXCEPT !.i = i2,
                              !.written = @ + Len(ops),
                              !.commits = Append(@, Len(ops)),
                              !.pc = IF i2 < Len(proc.buf) THEN "commit" ELSE "done",
                              !.status = IF i2 < Len(proc.buf) THEN "running" ELSE "success"]
      /\ RunFrame

\* the loop up to a batch.commit() that rejects: exit 1
CGACommitFail ==
  /\ proc.script = "cgA" /\ proc.pc = "commit"
  /\ proc' = [proc EXCEPT !.pc = "done", !.status = "failed",
                          !.failedAt = Len(proc.commits) + 1]
  /\ UNCHANGED <<daily, now>> /\ RunFrame

NextRun ==
  \/ GTAFetch401
  \/ GTAFetchError
  \/ GTAFetchOk
  \/ GTACommitOk
  \/ GTACommitFail
  \/ GTBFetchNotOk
  \/ GTBFetchOk
  \/ GTBWriteOk
  \/ GTBWriteFail
  \/ CGAFetchError
  \/ CGAFetchOk
  \/ CGASnapshot
  \/ CGACommitOk
  \/ CGACommitFail

SpecRun == InitRun /\ [][NextRun]_vars

----------------------------------------------------------------------------
(* Properties of SpecRun *)

\* C9: when the soft-limit answer (HTTP 401) is the answer to the first page
\* request, the run ends as a success, has written no record and the store
\* is as it was (empty here), not as a failed run.
C9_SoftLimitIsSuccess ==
  (proc.first = "401" /\ proc.pc = "done") =>
    /\ proc.status = "success"
    /\ proc.written = 0
    /\ daily = <<>>

\* the document id of buffered record j of the run
IdOfBuffered(j) ==
  IF proc.script = "gtA" THEN ymdOfCandle(proc.buf[j]) ELSE keyOfEntry(proc.buf[j])

\* the price the store holds for buffered record j is the record's own
HoldsBuffered(j) ==
  LET id == IdOfBuffered(j)
  IN  /\ Exists(daily, id)
      /\ IF proc.script = "gtA"
         THEN Field(daily[id], "close") = proc.buf[j].c
         ELSE Field(daily[id], "priceUSD") = proc.buf[j].v.priceUSD

\* C10: the batch commit loop on n buffered records commits chunks of 450
\* (the last one the rest) in the order of the buffer: 1250 records go in
\* chunks of 450, 450 and 350; the store holds exactly the records of the
\* committed chunks; when the commit of chunk j fails the run stops with the
\* chunks before j committed and none after, so a failure of the second
\* chunk of 1250 leaves exactly the first 450 records in the store.
C10_ChunksOf450 ==
  proc.script \in {"gtA", "cgA"} =>
    LET n == proc.n
        c == proc.commits
    IN  /\ \A k \in 1..Len(c) : c[k] = Min(450, n - 450 * (k - 1))
        /\ proc.i = Min(450 * Len(c), n)
        /\ DOMAIN daily = {IdOfBuffered(j) : j \in 1..proc.i}
        /\ \A j \in 1..proc.i : HoldsBuffered(j)
        /\ proc.failedAt > 0 =>
             /\ proc.pc = "done" /\ proc.status = "failed"
             /\ Len(c) = proc.failedAt - 1
             /\ Cardinality(DOMAIN daily) = 450 * (proc.failedAt - 1)
        /\ (proc.status = "success" /\ proc.first = "ok") => proc.i = n
        /\ (n = 1250 /\ proc.status = "success") => c = <<450, 450, 350>>
        /\ (n = 1250 /\ proc.failedAt = 2) =>
             /\ c = <<450>>
             /\ DOMAIN daily = {IdOfBuffered(j) : j \in 1..450}

\* 1250 records buffered, the first chunk committed, the commit of the second
\* chunk rejected
C10_Witness ==
  /\ proc.script = "gtA"
  /\ proc.n = 1250
  /\ proc.failedAt = 2
  /\ proc.status = "failed"
  /\ Cardinality(DOMAIN daily) = 450

\* the page requests the paging run has sent for its present cursor: every
\* page that came with rows was committed and moved the cursor
RequestsAtCursor == proc.pages - Len(proc.commits)

\* C19: a paging run that has failed on a rate limit (429) or a server error
\* (500) of a page fetch has asked for that cursor more than once.
C19_TransientRetried ==
  (proc.script = "gtB" /\ proc.status = "failed" /\ proc.err \in {"429", "500"}) =>
    RequestsAtCursor > 1

\* the run has met a bad request (400) on a fetch, or a rejected store write
FatalMet == proc.err = "400" \/ proc.failedAt > 0

\* the document ids of the records committed by the run so far
CommittedByRun ==
  IF proc.script = "gtB"
  THEN {Day0 + proc.hist - k : k \in 1..proc.total}
  ELSE {IdOfBuffered(j) : j \in 1..proc.i}

\* C20: a fetch answered with a bad request, or a rejected store write, ends
\* the run as failed in that very step, which writes nothing; no step follows
\* (no further fetch, no further write), and the store holds exactly the
\* records of the pages or chunks committed before.
C20_FatalEndsRun ==
  /\ [](FatalMet =>
          /\ proc.status = "failed" /\ proc.pc = "done"
          /\ ~ENABLED NextRun
          /\ DOMAIN daily = CommittedByRun
          /\ Cardinality(DOMAIN daily) = proc.i)
  /\ [][(FatalMet' /\ ~FatalMet) =>
          /\ daily' = daily
          /\ proc'.commits = proc.commits
          /\ proc'.total = proc.total]_vars

\* the paging run has committed a page and its next fetch was answered 400
C20_Witness ==
  /\ proc.script = "gtB"
  /\ proc.status = "failed"
  /\ proc.err = "400"
  /\ Len(proc.commits) = 1
  /\ proc.pages = 2
  /\ Cardinality(DOMAIN daily) = proc.hist
  /\ proc.hist > 1

----------------------------------------------------------------------------
(* The paging loops on long histories (SpecPage): the paging GeckoTerminal  *)
(* backfills (writeBatch, Promise.all) and the subgraph backfills of        *)
(* Uniswap v3 and v2, whose queries ask for first: 1000 rows at skip.       *)

\* first: 1000 of Q and Q_TOKEN_DAY_DATAS
FIRST == 1000
\* const BATCH_LIMIT = 500 of the Uniswap v3 backfill
BATCH_LIMIT == 500

\* the tokenDayData row of day number i of the history
TokenDayOf(i) ==
  [date |-> (Day0 + i) * DaySec, priceUSD |-> StrNum(10 + (i % 3)), volumeUSD |-> StrNum(7)]

\* tokenDayDatas(first: 1000, skip, orderBy: date, orderDirection: asc)
TokenDayDatas(r) ==
  LET m == IF r.skip >= r.hist THEN 0 ELSE Min(FIRST, r.hist - r.skip)
  IN  [j \in 1..m |-> TokenDayOf(r.skip + j - 1)]

PageRuns ==
  ({"gtB", "gtC"} \X {ShortHist, CapHist}) \cup ({"v3", "v2"} \X {0, 1, FIRST, ShortHist, CapHist})

InitPage ==
  /\ daily = <<>>
  /\ hourly = <<>>
  /\ now = Day0 * DayMs
  /\ last = NoWrite
  /\ before = <<>>
  /\ wrote = {}
  /\ ingested = <<>>
  /\ proc \in {NewRun(x[1], x[2]) : x \in PageRuns}

\* --- the Promise.all GeckoTerminal backfill (src/unnamed/part_002)

\* a status that is not ok: fetchCandlesDay throws, the catch exits 1
GTCFetchNotOk ==
  \E st \in NotOk :
    /\ proc.script = "gtC" /\ proc.pc = "fetch"
    /\ proc' = [proc EXCEPT !.pc = "done", !.status = "failed", !.pages = @ + 1, !.asked = Append(@, proc.beforeTs),
                            !.late = Late(proc),
                            !.first = Answer(proc, st), !.err = st]
    /\ UNCHANGED <<daily, now>> /\ RunFrame

\* 200: rows mapped and filtered; an empty batch ends the loop; before is set
\* to the oldest ts - 1 ahead of the writes
GTCFetchOk ==
  LET raw == PageRows(proc)
      batch == SelectSeq([j \in 1..Len(raw) |-> candleGTC(raw[j])], keptGTC)
  IN  /\ proc.script = "gtC" /\ proc.pc = "fetch"
      /\ proc' = IF Len(batch) = 0
                 THEN [proc EXCEPT !.pc = "done", !.status = "success", !.pages = @ + 1, !.asked = Append(@, proc.beforeTs),
                                   !.late = Late(proc), !.short = TRUE,
                                   !.first = Answer(proc, "ok")]
                 ELSE [proc EXCEPT !.pc = "commit", !.buf = batch, !.pages = @ + 1, !.asked = Append(@, proc.beforeTs),
                                   !.late = Late(proc), !.short = Len(raw) < PAGE_LIMIT,
                                   !.beforeTs = batch[Len(batch)].ts - 1,
                                   !.first = Answer(proc, "ok")]
      /\ UNCHANGED <<daily, now>> /\ RunFrame

\* await Promise.all(writes) resolves: every set of the page is in the store
GTCWriteOk ==
  LET batch == proc.buf
      total == proc.total + Len(batch)
  IN  /\ proc.script = "gtC" /\ proc.pc = "commit"
      /\ daily' = writesGTC(daily, batch, now)
      /\ now' = now + 1
      /\ proc' = [proc EXCEPT !.total = total, !.written = total, !.i = total,
                              !.commits = Append(@, Len(batch)),
                              !.buf = <<>>, !.pc = "fetch"]
      /\ RunFrame

\* the sets of the page that reach the store when one of them is rejected:
\* each set is a request of its own, so the others land or not
Landed(batch) ==
  {<<>>, SubSeq(batch, 1, Len(batch) - 1), SubSeq(batch, 2, Len(batch))}

\* await Promise.all(writes) rejects: the catch exits 1
GTCWriteFail ==
  \E landed \in Landed(proc.buf) :
    /\ proc.script = "gtC" /\ proc.pc = "commit"
    /\ daily' = writesGTC(daily, landed, now)
    /\ now' = now + 1
    /\ proc' = [proc EXCEPT !.pc = "done", !.status = "failed",
                            !.failedAt = Len(proc.commits) + 1]
    /\ RunFrame


\* --- the Uniswap v3 backfill (src/unnamed/part_001): gql, backfill

\* a response that is not ok, or one with errors: gql throws, the catch exits 1
V3FetchNotOk ==
  \E st \in NotOk :
    /\ proc.script = "v3" /\ proc.pc = "fetch"
    /\ proc' = [proc EXCEPT !.pc = "done", !.status = "failed", !.pages = @ + 1,
                            !.late = Late(proc),
                            !.first = Answer(proc, st), !.err = st]
    /\ UNCHANGED <<daily, now>> /\ RunFrame

\* a chunk: all = all.concat(chunk); a chunk of fewer than 1000 rows ends the
\* paging, else skip += 1000
V3FetchOk ==
  LET chunk == TokenDayDatas(proc)
      all == proc.buf \o chunk
      r == [proc EXCEPT !.buf = all, !.n = Len(all), !.total = Len(all), !.pages = @ + 1,
                        !.late = Late(proc), !.short = Len(chunk) < FIRST,
                        !.first = Answer(proc, "ok")]
  IN  /\ proc.script = "v3" /\ proc.pc = "fetch"
      /\ proc' = IF Len(chunk) < FIRST
                 THEN IF Len(all) = 0
                      THEN [r EXCEPT !.pc = "done", !.status = "success"]
                      ELSE [r EXCEPT !.pc = "commit"]
                 ELSE [r EXCEPT !.skip = @ + FIRST]
      /\ UNCHANGED <<daily, now>> /\ RunFrame

\* the rows of the next batch: up to the commit at ops % BATCH_LIMIT === 0, or
\* the final one
batchV3(all, i) == SubSeq(all, i + 1, Min(i + BATCH_LIMIT, Len(all)))

\* the loop up to a batch.commit() that resolves
V3CommitOk ==
  LET rows == batchV3(proc.buf, proc.i)
      i2 == proc.i + Len(rows)
  IN  /\ proc.script = "v3" /\ proc.pc = "commit"
      /\ daily' = commitV3(daily, rows, now)
      /\ now' = now + 1
      /\ proc' = [proc EXCEPT !.i = i2, !.written = i2,
                              !.commits = Append(@, Len(rows)),
                              !.pc = IF i2 < Len(proc.buf) THEN "commit" ELSE "done",
                              !.status = IF i2 < Len(proc.buf) THEN "running" ELSE "success"]
      /\ RunFrame

\* the loop up to a batch.commit() that rejects: the catch exits 1
V3CommitFail ==
  /\ proc.script = "v3" /\ proc.pc = "commit"
  /\ proc' = [proc EXCEPT !.pc = "done", !.status = "failed",
                          !.failedAt = Len(proc.commits) + 1]
  /\ UNCHANGED <<daily, now>> /\ RunFrame

\* --- the Uniswap v2 backfill (scripts/backfill/backfillFromUniswapV2.js)

\* a response that is not ok, or one with errors: gql throws, the catch exits 1
V2RunFetchNotOk ==
  \E st \in NotOk :
    /\ proc.script = "v2" /\ proc.pc = "fetch"
    /\ proc' = [proc EXCEPT !.pc = "done", !.status = "failed", !.pages = @ + 1,
                            !.late = Late(proc),
                            !.first = Answer(proc, st), !.err = st]
    /\ UNCHANGED <<daily, now>> /\ RunFrame

\* rows: an empty list ends the loop
V2RunFetchOk ==
  LET rows == TokenDayDatas(proc)
      r == [proc EXCEPT !.pages = @ + 1, !.late = Late(proc),
                        !.short = Len(rows) < FIRST, !.first = Answer(proc, "ok")]
  IN  /\ proc.script = "v2" /\ proc.pc = "fetch"
      /\ proc' = IF Len(rows) = 0
                 THEN [r EXCEPT !.pc = "done", !.status = "success"]
                 ELSE [r EXCEPT !.pc = "commit", !.buf = rows]
      /\ UNCHANGED <<daily, now>> /\ RunFrame

\* the rows of the page the loop hands to upsertDaily
acceptedV2(rows) == SelectSeq(rows, rowAcceptedV2)

\* the loop over the rows of a page, every upsertDaily resolving; skip += rows.length
V2RunWriteOk ==
  LET rows == proc.buf
      acc == acceptedV2(rows)
  IN  /\ proc.script = "v2" /\ proc.pc = "commit"
      /\ daily' = ApplyBatch("v2", daily, acc, now)
      /\ now' = now + 1
      /\ proc' = [proc EXCEPT !.total = @ + Len(acc), !.written = @ + Len(acc),
                              !.i = @ + Len(acc),
                              !.skip = @ + Len(rows), !.buf = <<>>, !.pc = "fetch"]
      /\ RunFrame

\* the loop over the rows of a page up to an upsertDaily that rejects: the
\* rows before it are written, the catch exits 1
V2RunWriteFail ==
  \E j \in IF proc.script = "v2" /\ proc.pc = "commit" /\ Len(acceptedV2(proc.buf)) > 0
          THEN {1, Len(acceptedV2(proc.buf))} ELSE {} :
    /\ proc.script = "v2" /\ proc.pc = "commit"
    /\ daily' = ApplyBatch("v2", daily, SubSeq(acceptedV2(proc.buf), 1, j - 1), now)
    /\ now' = now + 1
    /\ proc' = [proc EXCEPT !.pc = "done", !.status = "failed", !.i = @ + j - 1,
                            !.failedAt = proc.pages]
    /\ RunFrame

NextPage ==
  \/ GTBFetchNotOk
  \/ GTBFetchOk
  \/ GTBWriteOk
  \/ GTBWriteFail
  \/ GTCFetchNotOk
  \/ GTCFetchOk
  \/ GTCWriteOk
  \/ GTCWriteFail
  \/ V3FetchNotOk
  \/ V3FetchOk
  \/ V3CommitOk
  \/ V3CommitFail
  \/ V2RunFetchNotOk
  \/ V2RunFetchOk
  \/ V2RunWriteOk
  \/ V2RunWriteFail

SpecPage == InitPage /\ [][NextPage]_vars

----------------------------------------------------------------------------
(* Properties of SpecPage *)

\* the store's ceiling of writes in one batch ("max 500 per batch")
STORE_BATCH_CEILING == 500

\* the scripts that write through db.batch()
BatchScripts == {"gtA", "gtB", "v3", "cgA"}

\* C11: every batch a backfill run has committed holds strictly fewer writes
\* than the store's ceiling of 500 writes per batch.
C11_BatchBelowCeiling ==
  proc.script \in BatchScripts =>
    \A k \in 1..Len(proc.commits) : proc.commits[k] < STORE_BATCH_CEILING

\* the document ids of the rows of the flushes the run has committed
CommittedIds ==
  IF proc.script \in {"gtB", "gtC"}
  THEN {Day0 + proc.hist - j : j \in 1..proc.total}
  ELSE {Day0 + j - 1 : j \in 1..proc.i}

\* C12: when a flush (a page or a chunk) has failed, none of its records is
\* in the store: the store holds the records of the flushes committed before
\* it and no other.
C12_FlushAtomic ==
  (proc.script \in {"gtB", "gtC", "v3"} /\ proc.failedAt > 0) =>
    DOMAIN daily = CommittedIds

\* C13: no page is asked for after a page shorter than the page size has
\* come, and a history of 2400 rows (pages of 1000, 1000 and 400) ends as a
\* success after three pages with 2400 rows in total.
C13_ShortPageEndsPaging ==
  /\ proc.late = 0
  /\ (proc.hist = 2400 /\ proc.pc = "done" /\ proc.err = "none" /\ proc.failedAt = 0) =>
       /\ proc.status = "success"
       /\ proc.pages = 3
       /\ proc.total = 2400

\* C14: a GeckoTerminal paging run whose rows fetched so far have reached the
\* safety cap of 20000 has stopped there as a success: it holds exactly 20000
\* rows and asks for no further page.
C14_StopsAtSafetyCap ==
  (proc.script \in {"gtB", "gtC"} /\ proc.total >= 20000) =>
    /\ proc.total = 20000
    /\ proc.pc = "done"
    /\ proc.status = "success"

\* C29: every paging loop ends by itself within the ceiling on the rows of
\* one run: a run has never fetched more rows than the safety cap, however
\* long the provider goes on returning full pages.
C29_RowsFetchedBounded ==
  proc.script \in {"gtB", "gtC", "v2", "v3"} =>
    /\ proc.total + Len(proc.buf) <= 20000
    /\ proc.pages <= 20

\* C25: in the backward GeckoTerminal pagers the cursors of the page
\* requests of a run strictly decrease, so no two requests use the same
\* cursor, and the cursor never moves forward.
C25_CursorStrictlyDecreases ==
  /\ [](proc.script \in {"gtB", "gtC"} =>
          /\ \A j \in 1..Len(proc.asked), k \in 1..Len(proc.asked) :
               j < k => proc.asked[k] < proc.asked[j]
          /\ (proc.pc = "fetch" /\ Len(proc.asked) > 0) =>
               proc.beforeTs < proc.asked[Len(proc.asked)])
  /\ [][proc.script \in {"gtB", "gtC"} => proc'.beforeTs <= proc.beforeTs]_vars

\* a run of three pages of rows and a fourth, empty one: four cursors asked
C25_Witness ==
  /\ proc.script \in {"gtB", "gtC"}
  /\ proc.hist = ShortHist
  /\ Len(proc.asked) = 4
  /\ proc.status = "success"
  /\ proc.asked[4] < proc.asked[1]

\* C26: after an hourly rollup the day record's high and low are finite
\* numbers with low <= incoming price <= high, also when the record existed
\* without high and low (a record of a provider backfill).
C26_HighLowFiniteAfterRollup ==
  last.prov = "dexscreener" =>
    LET d == daily[last.day]
    IN  /\ IsNumber(Field(d, "high")) /\ IsNumber(Field(d, "low"))
        /\ ~Less(Num(last.input), d["low"])
        /\ ~Less(d["high"], Num(last.input))

----------------------------------------------------------------------------
(* Candle validity on the backfill paths (SpecSeq) *)

\* C18: a backfill step whose candle has a price that is not finite or not
\* greater than 0 writes nothing: the day's record is as it was before.
C18_InvalidCandleSkipped ==
  (last.prov \in BackfillProviders /\ ~last.valid) =>
    /\ ~last.written
    /\ daily = before

----------------------------------------------------------------------------
(* The hourly ingestor's run (SpecQuote): pullDexScreenerQuote tries its   *)
(* endpoints in order, pickDexPair selects a pair of a response, and the    *)
(* quote goes to writeHourlyAndDaily.                                       *)

UNI_PAIR == PAIR

\* toLowerCase on the addresses that occur
Lower(a) ==
  CASE a = "0X1ECB" -> "0x1ecb"
    [] a = "0X7A65" -> "0x7a65"
    [] OTHER -> a

\* a pair of a DexScreener response; "" stands for a field that is missing
DexPair(addr, chainId, chain, base, quote, price, hasVolume, h24) ==
  [pairAddress |-> addr, chainId |-> chainId, chain |-> chain,
   baseToken |-> base, quoteToken |-> quote, priceUsd |-> price,
   hasVolume |-> hasVolume, h24 |-> h24]

DexPairs ==
  { DexPair("0X1ECB", "ethereum", "", "0x7a65", "0xc02a", StrNum(5), TRUE, Num(3)),
    DexPair("0x1ecb", "ethereum", "", "0xc02a", "0xdac1", StrNum(0 - 1), TRUE, Num(3)),
    DexPair("0xaaaa", "", "ethereum", "0xc02a", "0X7A65", StrNum(7), TRUE, Num(0)),
    DexPair("0xbbbb", "bsc", "", "0x7a65", "0xc02a", StrNum(3), FALSE, Undefined),
    DexPair("0xcccc", "ethereum", "", "0xc02a", "0xdac1", StrNum(0), TRUE, Num(3)),
    DexPair("0xdddd", "ethereum", "", "0x7a65", "0xc02a", StrText, TRUE, Num(3)) }

\* the bodies of a response: { pairs: [...] } of up to two pairs, { pair: {...} },
\* and one with neither
Responses ==
  {[kind |-> "pairs", pairs |-> <<>>], [kind |-> "none", pairs |-> <<>>]}
    \cup {[kind |-> "pairs", pairs |-> <<a>>] : a \in DexPairs}
    \cup {[kind |-> "pairs", pairs |-> <<a, b>>] : a \in DexPairs, b \in DexPairs}
    \cup {[kind |-> "pair", pairs |-> <<a>>] : a \in DexPairs}

\* the result null of pickDexPair, and no quote
NoPair == [none |-> TRUE]

\* pairs.find(test): the first pair at an index of hits, undefined when none
FirstAt(pairs, hits) ==
  IF hits = {} THEN NoPair ELSE pairs[CHOOSE j \in hits : \A k \in hits : j <= k]

matchesPair(p) == Lower(p.pairAddress) = UNI_PAIR

matchesToken(p) ==
  /\ (p.chainId = "ethereum" \/ p.chain = "ethereum")
  /\ (Lower(p.baseToken) = TOKEN_ADDRESS \/ Lower(p.quoteToken) = TOKEN_ADDRESS)

\* pickDexPair with the token tier ahead of the pair tier
pickDexPairTokenFirst(json) ==
  LET pairs == IF json.kind \in {"pairs", "pair"} THEN json.pairs ELSE <<>>
      byPair == FirstAt(pairs, {j \in 1..Len(pairs) : matchesPair(pairs[j])})
      byToken == FirstAt(pairs, {j \in 1..Len(pairs) : matchesToken(pairs[j])})
  IN  IF Len(pairs) = 0 THEN NoPair
      ELSE IF byToken # NoPair THEN byToken
      ELSE IF byPair # NoPair THEN byPair
      ELSE pairs[1]

pickDexPair(json) ==
  LET pairs == IF json.kind \in {"pairs", "pair"} THEN json.pairs ELSE <<>>
      byPair == FirstAt(pairs, {j \in 1..Len(pairs) : matchesPair(pairs[j])})
      byToken == FirstAt(pairs, {j \in 1..Len(pairs) : matchesToken(pairs[j])})
  IN  IF Len(pairs) = 0 THEN NoPair
      ELSE IF byPair # NoPair THEN byPair
      ELSE IF byToken # NoPair THEN byToken
      ELSE pairs[1]

\* the price test with priceUSD <= 0 left out
priceRejectedNotFinite(priceUSD) == ~GlobalIsFinite(priceUSD)

\* !isFinite(priceUSD) || priceUSD <= 0
priceRejected(priceUSD) == ~GlobalIsFinite(priceUSD) \/ ~Less(Num(0), priceUSD)

\* Number(pair.volume?.h24 || pair.volume || 0): with a falsy h24 the volume
\* object itself is converted, which gives NaN
volUSDOf(pair) ==
  IF ~pair.hasVolume THEN Num(0)
  ELSE IF Truthy(pair.h24) THEN ToNumber(pair.h24)
  ELSE NaN

\* the quote pullDexScreenerQuote returns for a pair
quoteOf(pair) ==
  [provider |-> "dexscreener", priceUSD |-> ToNumber(pair.priceUsd),
   volumeUSD |-> volUSDOf(pair), pairAddress |-> pair.pairAddress]

\* the four urls of tries
TRIES == 4

NewQuoteRun(run) ==
  [run |-> run, pc |-> "try", status |-> "running",
   i |-> 1,               \* the url of tries the loop is at
   lastErr |-> "none",
   quote |-> NoPair,      \* the quote pullDexScreenerQuote has returned
   json |-> [kind |-> "none", pairs |-> <<>>],   \* history: the last body
   pick |-> NoPair,       \* history: the pair pickDexPair chose of it
   startDaily |-> daily,  \* history: the collections when the run began
   startHourly |-> hourly]

InitQuote ==
  /\ daily = <<>>
  /\ hourly = <<>>
  /\ now = StartHourlyMs
  /\ last = NoWrite
  /\ before = <<>>
  /\ wrote = {}
  /\ ingested = <<>>
  /\ proc = [run |-> 1, pc |-> "try", status |-> "running", i |-> 1, lastErr |-> "none",
             quote |-> NoPair, json |-> [kind |-> "none", pairs |-> <<>>], pick |-> NoPair,
             startDaily |-> <<>>, startHourly |-> <<>>]

QuoteFrame == UNCHANGED <<last, before, wrote, ingested>>

\* continue: the next url, or past the last one throw dexscreener_failed,
\* which main catches: exit 1
NextTry(r, err) ==
  IF r.i < TRIES
  THEN [r EXCEPT !.i = @ + 1, !.lastErr = err]
  ELSE [r EXCEPT !.lastErr = err, !.pc = "done", !.status = "failed"]

\* getJSON throws (a status that is not ok, a timeout): catch, lastErr
QuoteTryError ==
  /\ proc.pc = "try"
  /\ proc' = NextTry([proc EXCEPT !.json = [kind |-> "none", pairs |-> <<>>], !.pick = NoPair],
                     "http")
  /\ UNCHANGED <<daily, hourly, now>> /\ QuoteFrame

\* getJSON returns a body: pickDexPair, the price test, return or continue
QuoteTryJson ==
  \E j \in Responses :
    LET pair == pickDexPair(j)
        r == [proc EXCEPT !.json = j, !.pick = pair]
    IN  /\ proc.pc = "try"
        /\ proc' = IF pair = NoPair THEN NextTry(r, "no pair in response")
                   ELSE IF priceRejected(ToNumber(pair.priceUsd)) THEN NextTry(r, "invalid price")
                   ELSE [r EXCEPT !.quote = quoteOf(pair), !.pc = "write"]
        /\ UNCHANGED <<daily, hourly, now>> /\ QuoteFrame

\* writeHourlyAndDaily resolves: exit 0
QuoteWrite ==
  /\ proc.pc = "write"
  /\ writeHourlyAndDaily(proc.quote)
  /\ now' = now + 1
  /\ proc' = [proc EXCEPT !.pc = "done", !.status = "success"]
  /\ QuoteFrame

\* writeHourlyAndDaily rejects at the set of the hourly point, or after it at
\* the get or the set of the day record: exit 1
QuoteWriteFail ==
  \E stage \in {"hourly", "daily"} :
    /\ proc.pc = "write"
    /\ hourly' = IF stage = "hourly" THEN hourly
                 ELSE Put(hourly, ymdh(now),
                          hourlyDoc(DataOrEmpty(hourly, ymdh(now)), proc.quote, now))
    /\ now' = now + 1
    /\ proc' = [proc EXCEPT !.pc = "done", !.status = "failed", !.lastErr = "store"]
    /\ UNCHANGED daily /\ QuoteFrame

\* the next scheduled run
QuoteRestart ==
  /\ proc.pc = "done"
  /\ proc.run < MaxQuoteRuns
  /\ proc' = NewQuoteRun(proc.run + 1)
  /\ now' = now + HourMs
  /\ UNCHANGED <<daily, hourly>> /\ QuoteFrame

NextQuote ==
  \/ QuoteTryError
  \/ QuoteTryJson
  \/ QuoteWrite
  \/ QuoteWriteFail
  \/ QuoteRestart

SpecQuote == InitQuote /\ [][NextQuote]_vars

----------------------------------------------------------------------------
(* Properties of SpecQuote *)

\* the candidates of the last body, in the order returned
Candidates == proc.json.pairs

\* tier (a): the candidate's pair address is the configured pair
TierA == {j \in 1..Len(Candidates) : Lower(Candidates[j].pairAddress) = "0x1ecb"}

\* tier (b): the candidate is on the configured chain and has the configured
\* token as base or quote token
TierB ==
  {j \in 1..Len(Candidates) :
     /\ "ethereum" \in {Candidates[j].chainId, Candidates[j].chain}
     /\ "0x7a65" \in {Lower(Candidates[j].baseToken), Lower(Candidates[j].quoteToken)}}

\* C15: of a body with candidates the selector returns exactly one of them:
\* one of tier (a) when there is one, otherwise one of tier (b) when there
\* is one, otherwise the first candidate.
C15_SelectorPrecedence ==
  Len(Candidates) > 0 =>
    /\ proc.pick \in {Candidates[j] : j \in 1..Len(Candidates)}
    /\ TierA # {} => proc.pick \in {Candidates[j] : j \in TierA}
    /\ (TierA = {} /\ TierB # {}) => proc.pick \in {Candidates[j] : j \in TierB}
    /\ (TierA = {} /\ TierB = {}) => proc.pick = Candidates[1]

\* a body whose second candidate is of tier (a) and whose first is of tier
\* (b): the second is returned
C15_Witness ==
  /\ Len(Candidates) = 2
  /\ TierA = {2}
  /\ 1 \in TierB
  /\ proc.pick = Candidates[2]
  /\ proc.pick # Candidates[1]

\* the candidates of the last body, other than the one returned, whose price
\* is finite and greater than 0
ValidOthers ==
  {c \in {Candidates[j] : j \in 1..Len(Candidates)} :
     c # proc.pick /\ ValidPrice(ToNumber(c.priceUsd))}

\* C16: when the candidate matched by pair address has a price that is not
\* finite or not greater than 0 and the same body holds another candidate
\* with a valid price, the quote is taken from that body's other candidate.
C16_FallsToNextTier ==
  (/\ TierA # {}
   /\ proc.pick # NoPair
   /\ ~ValidPrice(ToNumber(proc.pick.priceUsd))
   /\ ValidOthers # {}) =>
    /\ proc.quote # NoPair
    /\ proc.quote.pairAddress \in {c.pairAddress : c \in ValidOthers}

\* C17: a run writes only a quote whose price is finite and greater than 0:
\* every hourly point and every day record closes at such a price; a run
\* that ends with no quote has failed and has left the hourly and the daily
\* collection as they were when it began.
C17_OnlyValidQuoteWritten ==
  /\ proc.quote # NoPair => ValidPrice(proc.quote.priceUSD)
  /\ \A h \in DOMAIN hourly : ValidPrice(hourly[h].priceUSD)
  /\ \A d \in DOMAIN daily : ValidPrice(daily[d].close)
  /\ proc.status = "success" => proc.quote # NoPair
  /\ (proc.pc = "done" /\ proc.quote = NoPair) =>
       /\ proc.status = "failed"
       /\ hourly = proc.startHourly
       /\ daily = proc.startDaily

\* the second run has tried every url, the last one answering with a pair of
\* an invalid price, and has failed on a store the first run wrote to
C17_Witness ==
  /\ proc.run = 2
  /\ proc.pc = "done"
  /\ proc.status = "failed"
  /\ proc.quote = NoPair
  /\ proc.i = TRIES
  /\ proc.lastErr = "invalid price"
  /\ hourly # <<>>
  /\ daily # <<>>

----------------------------------------------------------------------------
(* A failed run and its re-runs (SpecRerun): the single-fetch and the paging *)
(* GeckoTerminal backfill and the Uniswap v2 backfill, each started again    *)
(* by hand after an exit 1, on the store the failed run left.                *)

MaxRuns == 2

RerunScripts == {"gtA", "gtB", "v2"}

\* a run of a script: run counts the runs, prevNs holds the sizes of the
\* responses of the earlier runs that committed a batch
FirstRun(script, hist) == NewRun(script, hist) @@ [run |-> 1, prevNs |-> {}]

InitRerun ==
  /\ daily = <<>>
  /\ hourly = <<>>
  /\ now = (Day0 + HistDays) * DayMs
  /\ last = NoWrite
  /\ before = <<>>
  /\ wrote = {}
  /\ ingested = <<>>
  /\ proc \in {FirstRun(sc, IF sc = "gtA" THEN 0 ELSE h) : sc \in RerunScripts, h \in 0..HistDays}

\* the script is started again after an exit 1
Rerun ==
  /\ proc.pc = "done" /\ proc.status = "failed"
  /\ proc.run < MaxRuns
  /\ proc' = NewRun(proc.script, proc.hist)
               @@ [run |-> proc.run + 1,
                   prevNs |-> IF Len(proc.commits) > 0 THEN proc.prevNs \cup {proc.n}
                              ELSE proc.prevNs]
  /\ now' = now + 1
  /\ UNCHANGED daily /\ RunFrame

NextRerun ==
  \/ GTAFetch401
  \/ GTAFetchError
  \/ GTAFetchOk
  \/ GTACommitOk
  \/ GTACommitFail
  \/ GTBFetchNotOk
  \/ GTBFetchOk
  \/ GTBWriteOk
  \/ GTBWriteFail
  \/ V2RunFetchNotOk
  \/ V2RunFetchOk
  \/ V2RunWriteOk
  \/ V2RunWriteFail
  \/ Rerun

SpecRerun == InitRerun /\ [][NextRerun]_vars

\* the store without the write-time markers of its documents
Unmarked(store) == [id \in DOMAIN store |-> StripMarkers(store[id])]

\* the store one uninterrupted run of the script leaves on the same provider
\* data, started on an empty store
SingleRunStore ==
  CASE proc.script = "gtA" -> commitGTA(<<>>, proc.buf, now)
    [] proc.script = "gtB" -> writeBatch(<<>>, Response(proc.hist), now)
    [] proc.script = "v2" ->
         ApplyBatch("v2", <<>>, acceptedV2(TokenDayDatas(NewRun("v2", proc.hist))), now)

\* C21: when a run failed after some of its batches were committed and the
\* script is run again to its end on the same provider data, the store is
\* the store of one uninterrupted run (write-time markers aside).
C21_RerunEqualsSingleRun ==
  (/\ proc.run > 1
   /\ proc.status = "success"
   /\ proc.first = "ok"
   /\ proc.prevNs \subseteq {proc.n}) =>
    Unmarked(daily) = Unmarked(SingleRunStore)

\* the first run committed its first chunk of 1250 candles and failed at the
\* second, the second run has written all 1250
C21_Witness ==
  /\ proc.script = "gtA"
  /\ proc.run = 2
  /\ proc.status = "success"
  /\ proc.prevNs = {1250}
  /\ proc.n = 1250
  /\ Cardinality(DOMAIN daily) = 1250

----------------------------------------------------------------------------
(* The CoinGecko backfills on a market_chart response (SpecCG): the samples  *)
(* [tsMs, price] of prices are reduced to one entry per UTC day, by          *)
(* getCGPricesDaysMax of scripts/backfill/backfillFromCoinGecko.js and by    *)
(* the byDay loop of src/unnamed/part_003, and the entries are committed.    *)

MaxSamples == 2

\* entries.splice(0, 400) of part_003
CG_CHUNK == 400

\* the times of the samples: two on Day0, one on the next day
CGTimes == {Day0 * DayMs + HourMs, Day0 * DayMs + 5 * HourMs, (Day0 + 1) * DayMs + HourMs}

\* the prices of the samples: numerals, and a value that is no numeral
CGPriceValues == {Num(10), Num(12), StrText}

CGSamples == [ts : CGTimes, price : CGPriceValues]

\* json.prices: up to MaxSamples samples in any order
CGResponses ==
  UNION {[1..n -> CGSamples] : n \in 0..MaxSamples}

\* json.total_volumes: one volume sample at the time of every price sample
VolumesOf(prices) == [j \in 1..Len(prices) |-> [ts |-> prices[j].ts, vol |-> Num(5)]]

\* toDateKey(ms) / dayKeyUTC(tsMs): new Date(ms).toISOString().slice(0, 10)
dayKeyUTC(tsMs) == ymd(tsMs)

\* the place of key k in the entries of a Map, 0 when it has none
PlaceOf(entries, k) ==
  IF \E i \in 1..Len(entries) : entries[i].k = k
  THEN CHOOSE i \in 1..Len(entries) : entries[i].k = k
  ELSE 0

RECURSIVE byDatePrices(_, _)
\* for (const [ts, price] of prices): exist.priceUSD = Number(price), the
\* entries in the order their keys were first set
byDatePrices(prices, entries) ==
  IF Len(prices) = 0 THEN entries
  ELSE LET k == dayKeyUTC(Head(prices).ts)
           i == PlaceOf(entries, k)
           price == ToNumber(Head(prices).price)
       IN  byDatePrices(Tail(prices),
             IF i = 0
             THEN Append(entries, [k |-> k, v |-> [priceUSD |-> price, volumeUSD |-> Undefined]])
             ELSE [entries EXCEPT ![i].v.priceUSD = price])

RECURSIVE byDateVols(_, _)
\* for (const [ts, vol] of vols): exist.volumeUSD = Number(vol)
byDateVols(vols, entries) ==
  IF Len(vols) = 0 THEN entries
  ELSE LET k == dayKeyUTC(Head(vols).ts)
           i == PlaceOf(entries, k)
           vol == ToNumber(Head(vols).vol)
       IN  byDateVols(Tail(vols),
             IF i = 0
             THEN Append(entries, [k |-> k, v |-> [priceUSD |-> Undefined, volumeUSD |-> vol]])
             ELSE [entries EXCEPT ![i].v.volumeUSD = vol])

\* getCGPricesDaysMax of backfillFromCoinGecko.js: byDate.entries()
byDateEntries(prices, vols) == byDateVols(vols, byDatePrices(prices, <<>>))

RECURSIVE byDayOf(_, _)
\* part_003: if (!prev || tsMs > prev.ts) byDay.set(k, { ts: tsMs, close: Number(price) })
byDayOf(prices, byDay) ==
  IF Len(prices) = 0 THEN byDay
  ELSE LET tsMs == Head(prices).ts
           k == dayKeyUTC(tsMs)
       IN  byDayOf(Tail(prices),
             IF k \notin DOMAIN byDay \/ tsMs > byDay[k].ts
             THEN Put(byDay, k, [ts |-> tsMs, close |-> ToNumber(Head(prices).price)])
             ELSE byDay)

RECURSIVE sortedEntries(_)
\* Array.from(byDay.entries()).sort(([a], [b]) => a.localeCompare(b))
sortedEntries(byDay) ==
  IF DOMAIN byDay = {} THEN <<>>
  ELSE LET k == CHOOSE x \in DOMAIN byDay : \A y \in DOMAIN byDay : x <= y
       IN  <<[k |-> k, e |-> byDay[k]]>>
             \o sortedEntries([x \in (DOMAIN byDay) \ {k} |-> byDay[x]])

\* if (!Number.isFinite(close)) continue
setCGB(entry) == NumberIsFinite(entry.e.close)

\* every entry of the chunk is set, finite or not
setCGBAll(entry) == TRUE

\* a run of one of the two scripts: prices is the response it got, sets the
\* number of batch.set calls of its committed batches, others the writes of
\* another pipeline during the run
NewCGRun(script) ==
  NewRun(script, 0) @@ [prices |-> <<>>, sets |-> 0, others |-> 0]

\* the store at the start: empty, or holding Day0's record of the
\* single-fetch GeckoTerminal backfill
CGStores == {<<>>, RunGTA(<<>>, 10, Day0 * DayMs)}

InitCG ==
  /\ daily \in CGStores
  /\ hourly = <<>>
  /\ now = (Day0 + 2) * DayMs
  /\ last = NoWrite
  /\ before = <<>>
  /\ wrote = {}
  /\ ingested = <<>>
  /\ proc \in {NewCGRun(sc) : sc \in {"cgA", "cgB"}}

\* --- scripts/backfill/backfillFromCoinGecko.js on a response of samples

\* 200: byDate of the prices and the volumes
CGAFetchPrices ==
  \E prices \in CGResponses :
    /\ proc.script = "cgA" /\ proc.pc = "fetch"
    /\ proc' = [proc EXCEPT !.pc = "snapshot", !.prices = prices,
                            !.buf = byDateEntries(prices, VolumesOf(prices)),
                            !.first = "ok"]
    /\ UNCHANGED <<daily, now>> /\ RunFrame

\* --- src/unnamed/part_003: getCGPricesDaysMax, backfillDaily

\* a status that is not ok: fetchCG throws; getCGPricesDaysMax asks again with
\* days = 365 when the message holds 401 or tells of the 365 days limit
CGBFetchNotOk ==
  \E st \in NotOk, limitBody \in BOOLEAN :
    /\ proc.script = "cgB" /\ proc.pc \in {"fetch", "fetch365"}
    /\ proc' = IF proc.pc = "fetch" /\ (st = "401" \/ limitBody)
               THEN [proc EXCEPT !.pc = "fetch365", !.first = Answer(proc, st)]
               ELSE [proc EXCEPT !.pc = "done", !.status = "failed",
                                 !.first = Answer(proc, st), !.err = st]
    /\ UNCHANGED <<daily, now>> /\ RunFrame

\* 200: no prices throws 'coingecko returned no prices'; byDay, the entries sorted
CGBFetchOk ==
  \E prices \in CGResponses :
    /\ proc.script = "cgB" /\ proc.pc \in {"fetch", "fetch365"}
    /\ proc' = IF Len(prices) = 0
               THEN [proc EXCEPT !.pc = "done", !.status = "failed",
                                 !.first = Answer(proc, "ok"), !.err = "no prices"]
               ELSE [proc EXCEPT !.pc = "commit", !.prices = prices,
                                 !.buf = sortedEntries(byDayOf(prices, <<>>)),
                                 !.n = Cardinality(DOMAIN byDayOf(prices, <<>>)),
                                 !.first = Answer(proc, "ok")]
    /\ UNCHANGED <<daily, now>> /\ RunFrame

\* entries.splice(0, 400); the finite entries are set; commit resolves;
\* wrote += chunk.length
CGBCommitOk ==
  LET chunk == SubSeq(proc.buf, proc.i + 1, Min(proc.i + CG_CHUNK, Len(proc.buf)))
      sets == SelectSeq(chunk, setCGB)
      i2 == proc.i + Len(chunk)
  IN  /\ proc.script = "cgB" /\ proc.pc = "commit"
      /\ daily' = ApplyBatch("cgB", daily, sets, now)
      /\ now' = now + 1
      /\ proc' = [proc EXCEPT !.i = i2,
                              !.written = @ + Len(chunk),
                              !.sets = @ + Len(sets),
                              !.commits = Append(@, Len(sets)),
                              !.pc = IF i2 < Len(proc.buf) THEN "commit" ELSE "done",
                              !.status = IF i2 < Len(proc.buf) THEN "running" ELSE "success"]
      /\ RunFrame

\* batch.commit() rejects: exit 1
CGBCommitFail ==
  /\ proc.script = "cgB" /\ proc.pc = "commit"
  /\ proc' = [proc EXCEPT !.pc = "done", !.status = "failed",
                          !.failedAt = Len(proc.commits) + 1]
  /\ UNCHANGED <<daily, now>> /\ RunFrame

\* another pipeline (the single-fetch GeckoTerminal backfill) commits Day0's
\* record while the missing-days backfill runs
OtherPipelineWrite ==
  /\ proc.script = "cgA" /\ proc.pc \in {"fetch", "snapshot", "commit"}
  /\ proc.others < 1
  /\ daily' = RunGTA(daily, 12, now)
  /\ now' = now + 1
  /\ proc' = [proc EXCEPT !.others = @ + 1]
  /\ RunFrame

NextCG ==
  \/ CGAFetchError
  \/ CGAFetchPrices
  \/ CGASnapshot
  \/ CGACommitOk
  \/ CGACommitFail
  \/ CGBFetchNotOk
  \/ CGBFetchOk
  \/ CGBCommitOk
  \/ CGBCommitFail
  \/ OtherPipelineWrite

SpecCG == InitCG /\ [][NextCG]_vars

----------------------------------------------------------------------------
(* Properties of SpecCG *)

\* C22: a run of the CoinGecko backfill of part_003 that ends as a success
\* reports as written exactly the number of records its committed batches
\* set in the store.
C22_CountIsCommitted ==
  (proc.script = "cgB" /\ proc.status = "success") =>
    /\ proc.written = proc.sets
    /\ (proc.first = "ok" /\ proc.written > 0) => daily # <<>>

\* the samples of the run's response that fall on day id
SamplesOn(id) == {proc.prices[j] : j \in {i \in 1..Len(proc.prices) : proc.prices[i].ts \div DayMs = id}}

\* those of them with the greatest timestamp
LatestOn(id) == {x \in SamplesOn(id) : \A y \in SamplesOn(id) : y.ts <= x.ts}

\* C30: the priceUSD a CoinGecko backfill stored for a day is the price of
\* the sample with the greatest timestamp among the samples of that day in
\* the response, whatever their order.
C30_LatestSampleIsStored ==
  \A id \in DOMAIN daily :
    Has(daily[id], "priceUSD") =>
      daily[id]["priceUSD"] \in {ToNumber(x.price) : x \in LatestOn(id)}

\* C28: a commit of the missing-days CoinGecko backfill leaves every day
\* record that exists at the commit exactly as it is, also when the record
\* was created by another pipeline after the run's snapshot of the keys.
C28_ExistingDaysUntouched ==
  [][(proc.script = "cgA" /\ Len(proc'.commits) > Len(proc.commits)) =>
       \A id \in DOMAIN daily : daily'[id] = daily[id]]_vars

====
